---- MODULE Spec2Model ----
(***************************************************************************)
(* Model of the price normalization and gouging detection engine of        *)
(* src/amazon_metadata.py: parse_pack_count, compute_unit_price_from_price,*)
(* choose_amazon_baseline_for_asin and the main loop of generate_summary.  *)
(*                                                                         *)
(* Representation.                                                         *)
(*  - A Python str is a tuple of one-character strings; the empty tuple    *)
(*    stands for both "" and a missing/None text field (the code reads     *)
(*    every text field through `x or ""`).                                 *)
(*  - A finite Decimal is an integer number of 1e-5 units (DecimalOne      *)
(*    units make 1), so that a quotient can carry a fifth fractional digit *)
(*    before it is quantized to four.  Decimal("-0"), whatever its         *)
(*    exponent, is DecNegZero.                                             *)
(*  - An Optional[Decimal] is <<>> (None), <<n>> for a finite Decimal, or  *)
(*    one of DecNaN, DecSNaN, DecInf(1), DecInf(-1), which have two        *)
(*    elements.                                                            *)
(*  - A JSON price or rating field is null, a text or a number: JNull     *)
(*    (missing or null), JText (a text that neither Decimal() nor float()  *)
(*    accepts, such as "N/A"), JNum(n) (a finite number, or a text that    *)
(*    spells one), JNaN (the token NaN or a text such as "nan"),           *)
(*    JNaNPayload (a text such as "NaN123": Decimal() accepts it, float()  *)
(*    does not), JSNaN (the text "sNaN") and JInf(sign).                   *)
(*  - The percentage (price_delta_abs / amazon_unit_price) * 100, a        *)
(*    Decimal of 28 digits, is kept as the exact fraction <<num, den>>;    *)
(*    for denominators below 2^31 the float made of either is the same.    *)
(*  - A float is an IEEE-754 double (see "Floats" below).                  *)
(*  - A Python set is a set; the order in which it is iterated is given by *)
(*    the hash seed of the process (see IterOrder).  A list is a tuple.    *)
(*  - An int is an integer; int() of a digit string is its value, or       *)
(*    raises ValueError when the string has more than 4300 digits (the     *)
(*    limit of CPython 3.11).  The inputs hold runs of one to three digits *)
(*    and runs of 4301.                                                    *)
(***************************************************************************)
EXTENDS Integers, Sequences, FiniteSets, TLC

(***************************************************************************)
(* Characters and strings                                                  *)
(***************************************************************************)
\* The alphabet is Latin-1 (code points 0 to 255).
\* the upper-case letters: the characters that str.lower() changes
UpperChars == <<"A","B","C","D","E","F","G","H","I","J","K","L","M",
                "N","O","P","Q","R","S","T","U","V","W","X","Y","Z",
                "À","Á","Â","Ã","Ä","Å","Æ","Ç","È","É","Ê","Ë","Ì",
                "Í","Î","Ï","Ð","Ñ","Ò","Ó","Ô","Õ","Ö","Ø","Ù","Ú",
                "Û","Ü","Ý","Þ">>

\* their images under str.lower(), in the same order
LowerChars == <<"a","b","c","d","e","f","g","h","i","j","k","l","m",
                "n","o","p","q","r","s","t","u","v","w","x","y","z",
                "à","á","â","ã","ä","å","æ","ç","è","é","ê","ë","ì",
                "í","î","ï","ð","ñ","ò","ó","ô","õ","ö","ø","ù","ú",
                "û","ü","ý","þ">>

\* the lower-case letters that are the image of no upper-case letter
UncasedLowerChars == {"ª","µ","º","ß","ÿ"}

\* the characters of \w that are neither letters nor decimal digits:
\* the underscore and the superscript and fraction numerals
OtherWordChars == {"_","²","³","¹","¼","½","¾"}

DigitChars == <<"0","1","2","3","4","5","6","7","8","9">>

\* the white space of str.strip() and of \s
SpaceChars == {"\t", "\n", "", "\f", "\r", "", "", "", "", " ", "", " "}

IsUpper(c) == \E i \in 1..Len(UpperChars) : UpperChars[i] = c

IsLower(c) == (\E i \in 1..Len(LowerChars) : LowerChars[i] = c) \/ c \in UncasedLowerChars

IsDigit(c) == \E i \in 1..10 : DigitChars[i] = c

DigitVal(c) == (CHOOSE i \in 1..10 : DigitChars[i] = c) - 1

\* \w of the regular expressions (str patterns match by Unicode category)
IsWordChar(c) == IsUpper(c) \/ IsLower(c) \/ IsDigit(c) \/ c \in OtherWordChars

LowerChar(c) ==
    IF IsUpper(c) THEN LowerChars[CHOOSE i \in 1..Len(UpperChars) : UpperChars[i] = c] ELSE c

\* str.lower()
Lower(s) == [i \in 1..Len(s) |-> LowerChar(s[i])]

\* str.strip()
Strip(s) ==
    LET keep == {i \in 1..Len(s) : s[i] \notin SpaceChars}
    IN  IF keep = {} THEN <<>>
        ELSE LET lo == CHOOSE i \in keep : \A j \in keep : i <= j
                 hi == CHOOSE i \in keep : \A j \in keep : j <= i
             IN  SubSeq(s, lo, hi)

\* safe_lower(x) = (x or "").strip().lower()
safe_lower(x) == Lower(Strip(x))

\* `needle in hay` for two strings
Contains(hay, needle) ==
    \E i \in 1..(Len(hay) - Len(needle) + 1) :
        SubSeq(hay, i, i + Len(needle) - 1) = needle

\* whether the (lower-case) word w stands in s at position i, ignoring case
MatchAt(s, i, w) ==
    /\ i >= 1
    /\ i + Len(w) - 1 <= Len(s)
    /\ \A j \in 1..Len(w) : LowerChar(s[i + j - 1]) = w[j]

\* first position >= i of s that holds no white space (Len(s)+1 if none)
SkipSpaces(s, i) ==
    LET stops == {j \in i..Len(s) : s[j] \notin SpaceChars}
    IN  IF stops = {} THEN Len(s) + 1
        ELSE CHOOSE j \in stops : \A k \in stops : j <= k

\* first position >= i of s that holds no digit (Len(s)+1 if none)
SkipDigits(s, i) ==
    LET stops == {j \in i..Len(s) : ~IsDigit(s[j])}
    IN  IF stops = {} THEN Len(s) + 1
        ELSE CHOOSE j \in stops : \A k \in stops : j <= k

\* the value of the digits s[i..j-1] (0 for an empty run)
RECURSIVE DigitsValue(_, _, _)
DigitsValue(s, i, j) ==
    IF j <= i THEN 0
    ELSE 10 * DigitsValue(s, i, j - 1) + DigitVal(s[j - 1])

\* sys.int_info.default_max_str_digits: int() of a string of more digits
\* than this raises ValueError (leading zeros count as digits)
IntMaxStrDigits == 4300

\* int() of the digits s[i..j-1]: <<>> when int() raises, else <<value>>
IntOfDigits(s, i, j) ==
    IF j - i > IntMaxStrDigits THEN <<>> ELSE <<DigitsValue(s, i, j)>>

\* re.sub(r"\D", "", s): the digits of s, in order
OnlyDigits(s) == SelectSeq(s, LAMBDA c : IsDigit(c))

Max(a, b) == IF a >= b THEN a ELSE b

\* v has a value. An operator computes an argument when it first reads it; a
\* loop that is split in halves reads its running value on entry, so that the
\* value of the first half is there before the second half starts
Computed(v) == v = v

Min(a, b) == IF a <= b THEN a ELSE b

(***************************************************************************)
(* Decimal values                                                          *)
(***************************************************************************)
\* the integer that stands for Decimal("1"): values are counted in 1e-5
DecimalOne == 100000

\* the integer that stands for Decimal("0.0001"), the quantum of quantize
Quantum == 10

None == <<>>

Some(n) == <<n>>

IsNone(o) == o = <<>>

Val(o) == o[1]

JNull == <<"null">>

JText == <<"text">>

JNum(n) == <<"num", n>>

\* the number -0.0, or a text such as "-0"
JNegZero == <<"num", 0, "-">>

JNaN == <<"nan", 0>>

JNaNPayload == <<"nan", 1>>

JSNaN == <<"snan">>

JInf(sign) == <<"inf", sign>>

\* the Decimals that are no finite numbers
DecNaN == <<0, "NaN">>

DecSNaN == <<0, "sNaN">>

DecInf(sign) == <<sign, "Infinity">>

\* the Decimal zero that carries a minus sign (Decimal("-0.0000")): it is
\* equal to 0 in every comparison, its sign shows in a quotient
DecNegZero == <<0, "-0">>

\* whether an Optional[Decimal] holds a finite number
IsNumber(o) == Len(o) = 1 \/ o = DecNegZero

\* the sign of a Decimal that is a number or an infinity
DecSign(d) ==
    IF d = DecNegZero THEN 0 - 1
    ELSE IF Len(d) = 1 THEN (IF d[1] < 0 THEN 0 - 1 ELSE 1)
    ELSE d[1]

\* to_decimal(x): None on a missing value or a text Decimal() rejects;
\* Decimal() accepts "NaN", "sNaN" and "Infinity" and keeps the sign of a
\* zero
to_decimal(x) ==
    IF x = JNegZero THEN DecNegZero
    ELSE IF x[1] = "num" THEN Some(x[2])
    ELSE IF x[1] = "nan" THEN DecNaN
    ELSE IF x[1] = "snan" THEN DecSNaN
    ELSE IF x[1] = "inf" THEN DecInf(x[2])
    ELSE None

Abs(n) == IF n < 0 THEN 0 - n ELSE n

Sign(n) == IF n < 0 THEN 0 - 1 ELSE 1

\* num/den (num >= 0, den > 0) rounded to an integer, ties to the even one:
\* the rounding of the default decimal context (ROUND_HALF_EVEN)
RoundHalfEven(num, den) ==
    LET q == num \div den
        r == num % den
    IN  IF 2 * r < den THEN q
        ELSE IF 2 * r > den THEN q + 1
        ELSE IF q % 2 = 0 THEN q ELSE q + 1

\* (n / d).quantize(Decimal("0.0001")) for d # 0, in 1e-5 units
Quantize(n, d) ==
    Sign(n) * Sign(d) * Quantum * RoundHalfEven(Abs(n), Quantum * Abs(d))

\* (p / Decimal(d)).quantize(Decimal("0.0001")) of a Decimal p that is a
\* number, d # 0: a result of 0 keeps the sign of the quotient
QuantizedQuotient(p, d) ==
    IF Quantize(Val(p), d) = 0 /\ DecSign(p) * Sign(d) < 0 THEN DecNegZero
    ELSE Some(Quantize(Val(p), d))

(***************************************************************************)
(* Listing-like records                                                    *)
(*                                                                         *)
(* A value of variant_dimensions is DimNone (missing, None, 0 or ""),      *)
(* <<"int", n>> with n # 0, or <<"str", s>> with s a non-empty string.     *)
(***************************************************************************)
DimNone == <<"none">>

DimInt(n) == <<"int", n>>

DimStr(s) == <<"str", s>>

NoDims ==
    [number_of_items |-> DimNone, number_of_items_string |-> DimNone,
     count |-> DimNone, items |-> DimNone]

\* the keys of variant_dimensions, in the order the code reads them
DimKeys == <<"number_of_items", "number_of_items_string", "count", "items">>

\* `if val:` of a dimension value
DimTruthy(val) ==
    \/ val[1] = "int" /\ val[2] # 0
    \/ val[1] = "str" /\ Len(val[2]) > 0

\* int(re.sub(r"\D", "", str(val)) or 1): str() of an integer is its digits
\* after an optional sign, so the digits left are those of its magnitude;
\* <<>> when int() raises, else <<value>>
DimDigits(val) ==
    IF val[1] = "int" THEN <<Abs(val[2])>>
    ELSE LET d == OnlyDigits(val[2])
         IN  IF d = <<>> THEN <<1>> ELSE IntOfDigits(d, 1, Len(d) + 1)

(***************************************************************************)
(* _pack_count_re1 = pack\s*(?:of)?\s*(\d+), ignoring case                 *)
(***************************************************************************)
\* where group 1 starts when the pattern matches at position i, else 0
Re1GroupAt(s, i) ==
    IF ~MatchAt(s, i, <<"p","a","c","k">>) THEN 0
    ELSE LET j == SkipSpaces(s, i + 4)
             k == SkipSpaces(s, j + 2)
         IN  IF MatchAt(s, j, <<"o","f">>) /\ k <= Len(s) /\ IsDigit(s[k]) THEN k
             ELSE IF j <= Len(s) /\ IsDigit(s[j]) THEN j
             ELSE 0

\* _pack_count_re1.search(text) and int(group 1) of the match: <<>> for no
\* match and for a match whose int() raises, else <<int(group 1)>>
Re1Search(s) ==
    LET hits == {i \in 1..Len(s) : Re1GroupAt(s, i) # 0}
    IN  IF hits = {} THEN None
        ELSE LET i == CHOOSE h \in hits : \A g \in hits : h <= g
                 k == Re1GroupAt(s, i)
             IN  IntOfDigits(s, k, SkipDigits(s, k))

(***************************************************************************)
(* _pack_count_re2 = (\d+)\s*(?:count|ct|pieces|pcs)\b, ignoring case      *)
(***************************************************************************)
CountWords ==
    { <<"c","o","u","n","t">>, <<"c","t">>,
      <<"p","i","e","c","e","s">>, <<"p","c","s">> }

\* \b after a word that ends at position p - 1
BoundaryAt(s, p) == p > Len(s) \/ ~IsWordChar(s[p])

Re2MatchAt(s, i) ==
    /\ IsDigit(s[i])
    /\ LET j == SkipSpaces(s, SkipDigits(s, i))
       IN  \E w \in CountWords : MatchAt(s, j, w) /\ BoundaryAt(s, j + Len(w))

\* _pack_count_re2.search(text) and int(group 1) of the match: <<>> for no
\* match and for a match whose int() raises, else <<int(group 1)>>
Re2Search(s) ==
    LET hits == {i \in 1..Len(s) : Re2MatchAt(s, i)}
    IN  IF hits = {} THEN None
        ELSE LET i == CHOOSE h \in hits : \A g \in hits : h <= g
             IN  IntOfDigits(s, i, SkipDigits(s, i))

(***************************************************************************)
(* parse_pack_count                                                        *)
(***************************************************************************)
\* the first value of a sequence of optional values laid end to end
FirstOf(options) == IF options = <<>> THEN None ELSE Some(options[1])

\* an optional match taken as it is
AsMatched(o) == o

\* max(1, n) of an optional match
AtLeastOne(o) == [i \in 1..Len(o) |-> Max(1, o[i])]

\* step 1: the first truthy dimension field whose int() does not raise
\* decides; the except branch passes on to the next field
RECURSIVE PackFromDims(_, _)
PackFromDims(dims, k) ==
    IF k > Len(DimKeys) THEN None
    ELSE IF DimTruthy(dims[DimKeys[k]])
         THEN FirstOf(AtLeastOne(DimDigits(dims[DimKeys[k]]))
                      \o PackFromDims(dims, k + 1))
         ELSE PackFromDims(dims, k + 1)

\* step 2: per text, pattern 1 and then pattern 2, before the next text
\* (an empty text is skipped; a match returns at once, unless its int()
\* raises: the except branch passes on to the next pattern or text)
RECURSIVE PackFromTexts(_, _)
PackFromTexts(texts, k) ==
    IF k > Len(texts) THEN None
    ELSE IF texts[k] = <<>> THEN PackFromTexts(texts, k + 1)
    ELSE FirstOf(AtLeastOne(Re1Search(texts[k]) \o Re2Search(texts[k]))
                 \o PackFromTexts(texts, k + 1))

\* the dimension fields, else the texts, else 1
parse_pack_count(v) ==
    Val(FirstOf(PackFromDims(v.variant_dimensions, 1)
                \o PackFromTexts(<<v.size, v.title, v.variant_name>>, 1)
                \o <<1>>))

(***************************************************************************)
(* classify_rating_tier                                                    *)
(***************************************************************************)
\* a rating is a JSON value whose number, if it is one, is the percentage
\* itself; float() accepts "nan" and "inf", and every comparison with nan
\* is false
classify_rating_tier(pos) ==
    IF pos = JNaN THEN "poor"
    ELSE IF pos[1] = "inf" THEN (IF pos[2] > 0 THEN "excellent" ELSE "poor")
    ELSE IF pos[1] # "num" THEN "none"
    ELSE IF pos[2] >= 90 THEN "excellent"
    ELSE IF pos[2] >= 75 THEN "good"
    ELSE IF pos[2] >= 50 THEN "mixed"
    ELSE "poor"

(***************************************************************************)
(* compute_unit_price_from_price                                           *)
(***************************************************************************)
\* line 95 on a Decimal that is no finite number: NaN / n is NaN and its
\* quantize is NaN; the quantize of an infinity raises and every operation
\* on sNaN raises, which is caught
UnitPriceOfSpecial(p) == IF p = DecNaN THEN DecNaN ELSE None

\* a division by Decimal(0) raises and is caught: None
compute_unit_price_from_price(price, pack_count) ==
    LET p == to_decimal(price)
    IN  IF IsNone(p) THEN None
        ELSE IF ~IsNumber(p) THEN UnitPriceOfSpecial(p)
        ELSE IF pack_count = 0 THEN None
        ELSE QuantizedQuotient(p, pack_count)

(***************************************************************************)
(* choose_amazon_baseline_for_asin                                         *)
(***************************************************************************)
AmazonWord == <<"a","m","a","z","o","n">>

\* (m.get("seller_name") or "").lower() contains "amazon"
IsAmazonNamed(m) == Contains(Lower(m.seller_name), AmazonWord)

NoBaseline == [price |-> None, source |-> "none"]

\* the first of two baselines that has a value
OrElse(b, other) == IF ~IsNone(b.price) THEN b ELSE other

\* a unit price up, else a raw price dp, under the tag of the step
TaggedBaseline(up, dp, tag) ==
    IF ~IsNone(up) THEN [price |-> up, source |-> tag]
    ELSE IF ~IsNone(dp) THEN [price |-> dp, source |-> tag \o "_raw"]
    ELSE NoBaseline

\* the value one primary offer gives: its unit price, else its raw price
OfferBaseline(m, tag) ==
    TaggedBaseline(compute_unit_price_from_price(m.price, parse_pack_count(m)),
                   to_decimal(m.price), tag)

\* lines 107-115: the loop over the primary offers, from position k; an
\* offer named like Amazon that gives no value lets the loop go on
RECURSIVE AmazonScan(_, _)
AmazonScan(ms, k) ==
    IF k > Len(ms) THEN NoBaseline
    ELSE IF IsAmazonNamed(ms[k])
         THEN OrElse(OfferBaseline(ms[k], "main_seller_amazon"), AmazonScan(ms, k + 1))
         ELSE AmazonScan(ms, k + 1)

\* lines 117-124: the first primary offer
FirstBaseline(ms) ==
    IF ms = <<>> THEN NoBaseline ELSE OfferBaseline(ms[1], "main_seller_first")

\* lines 126-129: the variant's own unit price, else nothing
VariantBaseline(variant_unit_price) ==
    IF ~IsNone(variant_unit_price)
    THEN [price |-> variant_unit_price, source |-> "variant_unit_price"]
    ELSE NoBaseline

\* the cascade without its first step
BaselineFirstOnly(main_sellers_for_asin, variant_unit_price) ==
    OrElse(FirstBaseline(main_sellers_for_asin), VariantBaseline(variant_unit_price))

choose_amazon_baseline_for_asin(main_sellers_for_asin, variant_unit_price) ==
    OrElse(AmazonScan(main_sellers_for_asin, 1),
           OrElse(FirstBaseline(main_sellers_for_asin),
                  VariantBaseline(variant_unit_price)))

(***************************************************************************)
(* Thresholds                                                              *)
(***************************************************************************)
PCT_THRESHOLD == 20

ABS_THRESHOLD == 2

TOP_N == 20

EXCLUDED_SELLERS ==
    { <<"a","m","a","z","o","n",".","c","o","m">>,
      <<"a","m","a","z","o","n">>,
      <<"k","i","n","d">>,
      <<"k","i","n","d"," ","s","n","a","c","k","s">>,
      <<"k","i","n","d","s","n","a","c","k","s">> }

PriceGougingFlag == <<"p","r","i","c","e"," ","g","o","u","g","i","n","g">>

FairPriceFlag == <<"f","a","i","r"," ","p","r","i","c","e">>

(***************************************************************************)
(* Dictionaries keep insertion order, as Python's do: a dictionary is a    *)
(* sequence of [k, v] entries with distinct keys.                          *)
(***************************************************************************)
Has(d, key) == \E i \in 1..Len(d) : d[i].k = key

Get(d, key, default) ==
    IF Has(d, key) THEN d[CHOOSE i \in 1..Len(d) : d[i].k = key].v ELSE default

Put(d, key, value) ==
    IF Has(d, key)
    THEN [i \in 1..Len(d) |-> IF d[i].k = key THEN [k |-> key, v |-> value] ELSE d[i]]
    ELSE Append(d, [k |-> key, v |-> value])

\* d[key] += 1 of a defaultdict(int) or Counter
Incr(d, key) == Put(d, key, Get(d, key, 0) + 1)

\* d[key] read from a defaultdict whose missing keys come to be `default`
Touch(d, key, default) == Put(d, key, Get(d, key, default))

(***************************************************************************)
(* Fractions: the exact value of a Decimal quotient                        *)
(***************************************************************************)
RECURSIVE GCD(_, _)
GCD(a, b) == IF b = 0 THEN a ELSE GCD(b, a % b)

\* n/d (d # 0) in lowest terms with a positive denominator
Frac(n, d) ==
    LET g == GCD(Abs(n), Abs(d))
    IN  <<Sign(d) * (n \div g), Abs(d) \div g>>

(***************************************************************************)
(* Natural numbers of any size, for the 53-bit significands of floats: a   *)
(* number is the sequence of its digits in base Base, lowest first, the    *)
(* highest digit not 0; <<>> is 0.                                         *)
(***************************************************************************)
PowersOfTwo == <<1, 2, 4, 8, 16, 32, 64, 128, 256, 512, 1024, 2048, 4096, 8192, 16384>>

\* the bits of one digit, and the base: the largest power of two listed
LimbBits == Len(PowersOfTwo) - 1

Base == PowersOfTwo[Len(PowersOfTwo)]

\* 2^k for k in 0..LimbBits
Pow2(k) == PowersOfTwo[k + 1]

RECURSIVE BigNorm(_)
BigNorm(a) ==
    IF a # <<>> /\ a[Len(a)] = 0 THEN BigNorm(SubSeq(a, 1, Len(a) - 1)) ELSE a

RECURSIVE BigOf(_)
BigOf(n) == IF n = 0 THEN <<>> ELSE <<n % Base>> \o BigOf(n \div Base)

\* the native integer of a number below 2^31
RECURSIVE BigToInt(_)
BigToInt(a) == IF a = <<>> THEN 0 ELSE a[1] + Base * BigToInt(Tail(a))

Limb(a, i) == IF i <= Len(a) THEN a[i] ELSE 0

RECURSIVE BigAddFrom(_, _, _, _)
BigAddFrom(a, b, i, carry) ==
    IF i > Len(a) /\ i > Len(b) THEN BigOf(carry)
    ELSE <<(Limb(a, i) + Limb(b, i) + carry) % Base>>
             \o BigAddFrom(a, b, i + 1, (Limb(a, i) + Limb(b, i) + carry) \div Base)

BigAdd(a, b) == BigAddFrom(a, b, 1, 0)

RECURSIVE BigSubFrom(_, _, _, _)
BigSubFrom(a, b, i, borrow) ==
    IF i > Len(a) THEN <<>>
    ELSE IF a[i] - Limb(b, i) - borrow < 0
         THEN <<a[i] - Limb(b, i) - borrow + Base>> \o BigSubFrom(a, b, i + 1, 1)
         ELSE <<a[i] - Limb(b, i) - borrow>> \o BigSubFrom(a, b, i + 1, 0)

\* a - b for a >= b
BigSub(a, b) == BigNorm(BigSubFrom(a, b, 1, 0))

RECURSIVE BigCmpFrom(_, _, _)
BigCmpFrom(a, b, i) ==
    IF i = 0 THEN 0
    ELSE IF a[i] < b[i] THEN 0 - 1
    ELSE IF a[i] > b[i] THEN 1
    ELSE BigCmpFrom(a, b, i - 1)

\* -1, 0 or 1 as a is less than, equal to or greater than b
BigCmp(a, b) ==
    IF Len(a) < Len(b) THEN 0 - 1
    ELSE IF Len(a) > Len(b) THEN 1
    ELSE BigCmpFrom(a, b, Len(a))

RECURSIVE BigMulAddFrom(_, _, _, _)
BigMulAddFrom(a, k, i, carry) ==
    IF i > Len(a) THEN BigOf(carry)
    ELSE <<(a[i] * k + carry) % Base>>
             \o BigMulAddFrom(a, k, i + 1, (a[i] * k + carry) \div Base)

\* a * k + c for 0 <= k <= Base and 0 <= c < Base
BigMulAdd(a, k, c) == BigNorm(BigMulAddFrom(a, k, 1, c))

RECURSIVE BigMulFrom(_, _, _)
BigMulFrom(a, b, i) ==
    IF i > Len(b) THEN <<>>
    ELSE BigAdd(BigMulAdd(a, b[i], 0), <<0>> \o BigMulFrom(a, b, i + 1))

BigMul(a, b) == BigNorm(BigMulFrom(a, b, 1))

\* <<quotient digits, remainder>> of the digits a[1..i] after a remainder
RECURSIVE BigDivFrom(_, _, _, _)
BigDivFrom(a, d, i, rem) ==
    IF i = 0 THEN <<<<>>, rem>>
    ELSE LET below == BigDivFrom(a, d, i - 1, (rem * Base + a[i]) % d)
         IN  <<Append(below[1], (rem * Base + a[i]) \div d), below[2]>>

\* <<a div d, a mod d>> for 0 < d < 8 * Base
BigDivSmall(a, d) ==
    LET r == BigDivFrom(a, d, Len(a), 0)
    IN  <<BigNorm(r[1]), r[2]>>

RECURSIVE BitLen(_)
BitLen(n) == IF n = 0 THEN 0 ELSE 1 + BitLen(n \div 2)

\* the number of binary digits of a
BigBitLen(a) == IF a = <<>> THEN 0 ELSE LimbBits * (Len(a) - 1) + BitLen(a[Len(a)])

\* a * 2^k
BigShl(a, k) ==
    IF a = <<>> THEN <<>>
    ELSE [i \in 1..(k \div LimbBits) |-> 0] \o BigMulAdd(a, Pow2(k % LimbBits), 0)

\* a div 2^k
BigShr(a, k) ==
    IF k \div LimbBits >= Len(a) THEN <<>>
    ELSE BigDivSmall(SubSeq(a, (k \div LimbBits) + 1, Len(a)), Pow2(k % LimbBits))[1]

\* binary digit k of a, the lowest being digit 0
BigBit(a, k) == (Limb(a, (k \div LimbBits) + 1) \div Pow2(k % LimbBits)) % 2

\* whether the k lowest binary digits of a are all 0
BigLowZero(a, k) == BigShl(BigShr(a, k), k) = a

RECURSIVE TrailingZeros(_)
TrailingZeros(n) == IF n % 2 = 1 THEN 0 ELSE 1 + TrailingZeros(n \div 2)

\* the number of 0 digits below the lowest 1 digit of a # 0
RECURSIVE BigTrailingZeros(_)
BigTrailingZeros(a) ==
    IF a[1] = 0 THEN LimbBits + BigTrailingZeros(Tail(a)) ELSE TrailingZeros(a[1])

(***************************************************************************)
(* Floats.  A Python float is an IEEE-754 double: not a number (DNaN), an  *)
(* infinity (DInf(sign)) or <<"fin", sign, m, e>>, the number              *)
(* sign * m * 2^e with sign 1 or -1 and m an odd natural number below 2^53 *)
(* (0 is <<"fin", 1, <<>>, 0>>; 0.0 and -0.0, which compare equal, are not *)
(* told apart, so that the float of either Decimal zero is 0).  Every operation rounds its exact result to the nearest    *)
(* double, a tie to the even significand; exponents stay in the normal     *)
(* range.                                                                  *)
(***************************************************************************)
SignificandBits == 53

DNaN == <<"nan">>

DInf(sign) == <<"inf", sign>>

DZero == <<"fin", 1, <<>>, 0>>

IsFin(x) == x[1] = "fin"

IsNaN(x) == x[1] = "nan"

\* sign * n * 2^e with the zeros below the lowest 1 digit of n moved to e
Canonical(sign, n, e) ==
    IF n = <<>> THEN DZero
    ELSE <<"fin", sign, BigShr(n, BigTrailingZeros(n)), e + BigTrailingZeros(n)>>

\* n * 2^e with the k lowest digits of n rounded away; sticky tells that
\* the exact value lies above n * 2^e (by less than 2^e)
RoundAway(sign, n, e, sticky, k) ==
    IF /\ BigBit(n, k - 1) = 1
       /\ (sticky \/ ~BigLowZero(n, k - 1) \/ BigBit(n, k) = 1)
    THEN Canonical(sign, BigAdd(BigShr(n, k), <<1>>), e + k)
    ELSE Canonical(sign, BigShr(n, k), e + k)

\* the double nearest to sign * n * 2^e (n has 55 digits or more whenever
\* sticky holds)
RoundToDouble(sign, n, e, sticky) ==
    IF BigBitLen(n) <= SignificandBits THEN Canonical(sign, n, e)
    ELSE RoundAway(sign, n, e, sticky, BigBitLen(n) - SignificandBits)

\* the digits of r / q in base 2^c appended to n, `steps` of them or until
\* the division ends: <<n, remainder, digits appended>>
RECURSIVE Expand(_, _, _, _, _, _)
Expand(n, r, q, c, steps, done) ==
    IF r = 0 \/ steps = 0 THEN <<n, r, done>>
    ELSE Expand(BigMulAdd(n, Pow2(c), (r * Pow2(c)) \div q), (r * Pow2(c)) % q,
                q, c, steps - 1, done + 1)

\* the double nearest to sign * p / q for integers p >= 0 and 0 < q < 2^27
NearestQuotient(sign, p, q) ==
    LET x == IF q < 8 * Base THEN Expand(BigOf(p \div q), p % q, q, LimbBits, 7, 0)
                             ELSE Expand(BigOf(p \div q), p % q, q, 4, 24, 0)
        c == IF q < 8 * Base THEN LimbBits ELSE 4
    IN  RoundToDouble(sign, x[1], 0 - c * x[3], x[2] # 0)

\* float(n) of an integer n
DOfInt(n) == Canonical(Sign(n), BigOf(Abs(n)), 0)

\* -x
DNeg(x) ==
    IF x[1] = "nan" THEN x
    ELSE IF x[1] = "inf" THEN DInf(0 - x[2])
    ELSE IF x[3] = <<>> THEN x
    ELSE <<"fin", 0 - x[2], x[3], x[4]>>

\* sx * a * 2^e + sy * b * 2^e
AddAligned(sx, a, sy, b, e) ==
    IF sx = sy THEN RoundToDouble(sx, BigAdd(a, b), e, FALSE)
    ELSE IF BigCmp(a, b) >= 0 THEN RoundToDouble(sx, BigSub(a, b), e, FALSE)
    ELSE RoundToDouble(sy, BigSub(b, a), e, FALSE)

\* x + y of two finite doubles, both written with the exponent e
AddFinite(x, y, e) ==
    AddAligned(x[2], BigShl(x[3], x[4] - e), y[2], BigShl(y[3], y[4] - e), e)

\* x + y
DAdd(x, y) ==
    IF x[1] = "nan" \/ y[1] = "nan" THEN DNaN
    ELSE IF x[1] = "inf" THEN (IF y[1] = "inf" /\ y[2] # x[2] THEN DNaN ELSE x)
    ELSE IF y[1] = "inf" THEN y
    ELSE AddFinite(x, y, IF x[4] <= y[4] THEN x[4] ELSE y[4])

\* x - y
DSub(x, y) == DAdd(x, DNeg(y))

\* x * y
DMul(x, y) ==
    IF x[1] = "nan" \/ y[1] = "nan" THEN DNaN
    ELSE IF x[1] = "inf" \/ y[1] = "inf"
         THEN IF (x[1] = "fin" /\ x[3] = <<>>) \/ (y[1] = "fin" /\ y[3] = <<>>) THEN DNaN
              ELSE DInf(x[2] * y[2])
    ELSE RoundToDouble(x[2] * y[2], BigMul(x[3], y[3]), x[4] + y[4], FALSE)

\* the quotient and remainder r of a significand moved up by six digits,
\* rounded
RoundQuotient(sign, r, e) == RoundToDouble(sign, r[1], e - 6 * LimbBits, r[2] # 0)

\* x / n for an integer n with 0 < n < 8 * Base
DDivInt(x, n) ==
    IF x[1] # "fin" THEN x
    ELSE RoundQuotient(x[2], BigDivSmall(<<0, 0, 0, 0, 0, 0>> \o x[3], n), x[4])

\* -1, 0 or 1 as the finite double x is less than, equal to or greater than
\* y, both written with the exponent e
CmpAligned(sx, a, sy, b) ==
    IF sx = sy THEN sx * BigCmp(a, b)
    ELSE IF sx > sy THEN 1 ELSE 0 - 1

CmpFinite(x, y, e) ==
    CmpAligned(x[2], BigShl(x[3], x[4] - e), y[2], BigShl(y[3], y[4] - e))

\* where a double that is a number stands: an infinity by its sign, a
\* finite double at 0
RankOf(x) == IF x[1] = "inf" THEN x[2] ELSE 0

\* x < y (FALSE when either is not a number)
DLt(x, y) ==
    /\ x[1] # "nan"
    /\ y[1] # "nan"
    /\ IF x[1] = "fin" /\ y[1] = "fin"
       THEN CmpFinite(x, y, IF x[4] <= y[4] THEN x[4] ELSE y[4]) < 0
       ELSE RankOf(x) < RankOf(y)

\* x >= y (FALSE when either is not a number)
DGe(x, y) == x[1] # "nan" /\ y[1] # "nan" /\ ~DLt(x, y)

\* whether x is 0.0 (`not x` of a float)
DIsZero(x) == x[1] = "fin" /\ x[3] = <<>>

\* n div 2^k rounded to the nearest integer, a tie to the even one
BigHalfEven(n, k) ==
    IF k = 0 THEN n
    ELSE IF BigBit(n, k - 1) = 1 /\ (~BigLowZero(n, k - 1) \/ BigBit(n, k) = 1)
    THEN BigAdd(BigShr(n, k), <<1>>)
    ELSE BigShr(n, k)

\* round(x, 2) of a finite double x, in hundredths: the double is read
\* exactly and rounded to two decimals, a tie to the even one
RoundHundredths(x) ==
    IF x[4] >= 0 THEN x[2] * BigToInt(BigShl(BigMulAdd(x[3], 100, 0), x[4]))
    ELSE x[2] * BigToInt(BigHalfEven(BigMulAdd(x[3], 100, 0), 0 - x[4]))

\* an Optional[float] is <<>> (None) or <<x>>
\* float(d) of a Decimal d that is no signaling NaN
FloatOfDecimal(d) ==
    IF d = DecNaN THEN DNaN
    ELSE IF ~IsNumber(d) THEN DInf(d[1])
    ELSE NearestQuotient(Sign(Val(d)), Abs(Val(d)), DecimalOne)

\* float(f) of the Decimal that the fraction f stands for
FloatOfFrac(f) == NearestQuotient(Sign(f[1]), Abs(f[1]), f[2])

\* float(x) of a JSON value that float() accepts
FloatOfJson(x) ==
    IF x[1] = "nan" THEN DNaN
    ELSE IF x[1] = "inf" THEN DInf(x[2])
    ELSE NearestQuotient(Sign(x[2]), Abs(x[2]), DecimalOne)

\* whether float(x) of a JSON value raises ValueError
FloatRaises(x) == x = JText \/ x = JNaNPayload \/ x = JSNaN

\* (x / y * 100) if y else 0.0 for counts x and y
RateOf(x, y) ==
    IF y = 0 THEN DZero ELSE DMul(NearestQuotient(1, x, y), DOfInt(100))

\* total + fs[lo] + ... + fs[hi]: the additions are made from the left, each
\* rounded (those of the first half of the range before the others)
RECURSIVE DSumFrom(_, _, _, _)
DSumFrom(total, fs, lo, hi) ==
    IF lo > hi \/ ~Computed(total) THEN total
    ELSE IF lo = hi THEN DAdd(total, fs[lo])
    ELSE DSumFrom(DSumFrom(total, fs, lo, (lo + hi) \div 2), fs, (lo + hi) \div 2 + 1, hi)

\* sum(fs[:n])
DSum(fs, n) == DSumFrom(DZero, fs, 1, n)

\* (sum(fs) / len(fs)) if fs else 0.0
DMean(fs) == IF fs = <<>> THEN DZero ELSE DDivInt(DSum(fs, Len(fs)), Len(fs))

\* max() keeps its candidate unless a later item compares greater: the
\* candidate after fs[lo..hi]
RECURSIVE MaxIn(_, _, _, _)
MaxIn(fs, lo, hi, best) ==
    IF lo > hi \/ ~Computed(best) THEN best
    ELSE IF lo = hi THEN (IF DLt(best, fs[lo]) THEN fs[lo] ELSE best)
    ELSE MaxIn(fs, (lo + hi) \div 2 + 1, hi, MaxIn(fs, lo, (lo + hi) \div 2, best))

MaxFrom(fs, i, best) == MaxIn(fs, i, Len(fs), best)

\* max(fs) if fs else 0.0
DMax(fs) == IF fs = <<>> THEN DZero ELSE MaxFrom(fs, 2, fs[1])

(***************************************************************************)
(* sorted(): CPython's list.sort.  The list is cut into runs: the natural  *)
(* run found by count_run, made ascending, and extended by binary          *)
(* insertion to minrun items when it is shorter.  A list of fewer than 64  *)
(* items is one run; a longer one has its runs merged pairwise, in the     *)
(* order the powers of their boundaries dictate, by merge_lo or merge_hi,  *)
(* which gallop once one run has won min_gallop times in a row.  The keys  *)
(* are only ever compared with <; `less` holds the pairs <<i, j>> of       *)
(* positions where the key of rows[i] is less than the key of rows[j].     *)
(* Offsets (hint, lastofs, ofs, k) count from 0 as in the C code; a run is *)
(* a sequence, whose item at offset i is a[i + 1].                         *)
(***************************************************************************)
\* the pairs of positions of a list of n rows
Pairs(n) == (1..n) \X (1..n)

Reverse(s) == [i \in 1..Len(s) |-> s[Len(s) + 1 - i]]

\* count_run: the last position of the run order[1..k] goes on to, the
\* first from k on whose next item does not continue the run
RunEnd(order, less, descending, k) ==
    LET stops == { j \in k..(Len(order) - 1) :
                     (<<order[j + 1], order[j]>> \in less) # descending }
    IN  IF stops = {} THEN Max(k, Len(order))
        ELSE CHOOSE j \in stops : \A i \in stops : j <= i

\* binarysort: where the pivot goes among order[l..r-1]
RECURSIVE InsertionPoint(_, _, _, _, _)
InsertionPoint(order, less, pivot, l, r) ==
    IF l >= r THEN l
    ELSE IF <<pivot, order[l + ((r - l) \div 2)]>> \in less
         THEN InsertionPoint(order, less, pivot, l, l + ((r - l) \div 2))
         ELSE InsertionPoint(order, less, pivot, l + ((r - l) \div 2) + 1, r)

\* order with the item at `start` moved down to position l
MovedTo(order, start, l) ==
    SubSeq(order, 1, l - 1) \o <<order[start]>> \o SubSeq(order, l, start - 1)
        \o SubSeq(order, start + 1, Len(order))

\* the items at positions lo..hi are inserted one after the other, each
\* among the items before it
RECURSIVE BinarySortIn(_, _, _, _)
BinarySortIn(order, less, lo, hi) ==
    IF lo > hi \/ ~Computed(order) THEN order
    ELSE IF lo = hi
    THEN MovedTo(order, lo, InsertionPoint(order, less, order[lo], 1, lo))
    ELSE BinarySortIn(BinarySortIn(order, less, lo, (lo + hi) \div 2),
                      less, (lo + hi) \div 2 + 1, hi)

\* binarysort: order[1..start-1] is sorted already
BinarySort(order, less, start) == BinarySortIn(order, less, start, Len(order))

\* a strictly descending run is reversed in place
WithRun(order, descending, end) ==
    IF descending
    THEN Reverse(SubSeq(order, 1, end)) \o SubSeq(order, end + 1, Len(order))
    ELSE order

SortFromRun(order, less, descending, end) ==
    BinarySort(WithRun(order, descending, end), less, end + 1)

\* MIN_GALLOP: the wins in a row after which a merge starts to gallop
MinGallop == 7

\* merge_compute_minrun: n itself below 64, else its six leading bits, plus
\* one when a bit was shifted out
RECURSIVE merge_compute_minrun(_, _)
merge_compute_minrun(n, r) ==
    IF n < 64 THEN n + r ELSE merge_compute_minrun(n \div 2, Max(r, n % 2))

\* s[:-1] and s[-1]
Front(s) == SubSeq(s, 1, Len(s) - 1)

Last(s) == s[Len(s)]

\* gallop_left when a[hint] < key: to the right, until
\* a[hint + lastofs] < key <= a[hint + ofs]; gives <<lastofs, ofs>> from a[0]
RECURSIVE GallopLeftUp(_, _, _, _, _, _, _)
GallopLeftUp(a, less, key, hint, lastofs, ofs, maxofs) ==
    IF ofs >= maxofs THEN <<lastofs + hint, maxofs + hint>>
    ELSE IF <<a[hint + ofs + 1], key>> \in less
         THEN GallopLeftUp(a, less, key, hint, ofs, 2 * ofs + 1, maxofs)
         ELSE <<lastofs + hint, ofs + hint>>

\* gallop_left when key <= a[hint]: to the left, until
\* a[hint - ofs] < key <= a[hint - lastofs]
RECURSIVE GallopLeftDown(_, _, _, _, _, _, _)
GallopLeftDown(a, less, key, hint, lastofs, ofs, maxofs) ==
    IF ofs >= maxofs THEN <<hint - maxofs, hint - lastofs>>
    ELSE IF <<a[hint - ofs + 1], key>> \in less
         THEN <<hint - ofs, hint - lastofs>>
         ELSE GallopLeftDown(a, less, key, hint, ofs, 2 * ofs + 1, maxofs)

\* the binary search that ends gallop_left
RECURSIVE BisectLeft(_, _, _, _, _)
BisectLeft(a, less, key, lastofs, ofs) ==
    IF lastofs >= ofs THEN ofs
    ELSE IF <<a[lastofs + ((ofs - lastofs) \div 2) + 1], key>> \in less
         THEN BisectLeft(a, less, key, lastofs + ((ofs - lastofs) \div 2) + 1, ofs)
         ELSE BisectLeft(a, less, key, lastofs, lastofs + ((ofs - lastofs) \div 2))

BisectLeftIn(a, less, key, found) == BisectLeft(a, less, key, found[1] + 1, found[2])

\* gallop_left: the offset k with a[k-1] < key <= a[k], searched from hint
gallop_left(key, a, hint, less) ==
    BisectLeftIn(a, less, key,
                 IF <<a[hint + 1], key>> \in less
                 THEN GallopLeftUp(a, less, key, hint, 0, 1, Len(a) - hint)
                 ELSE GallopLeftDown(a, less, key, hint, 0, 1, hint + 1))

\* gallop_right when key < a[hint]: to the left, until
\* a[hint - ofs] <= key < a[hint - lastofs]
RECURSIVE GallopRightDown(_, _, _, _, _, _, _)
GallopRightDown(a, less, key, hint, lastofs, ofs, maxofs) ==
    IF ofs >= maxofs THEN <<hint - maxofs, hint - lastofs>>
    ELSE IF <<key, a[hint - ofs + 1]>> \in less
         THEN GallopRightDown(a, less, key, hint, ofs, 2 * ofs + 1, maxofs)
         ELSE <<hint - ofs, hint - lastofs>>

\* gallop_right when a[hint] <= key: to the right, until
\* a[hint + lastofs] <= key < a[hint + ofs]
RECURSIVE GallopRightUp(_, _, _, _, _, _, _)
GallopRightUp(a, less, key, hint, lastofs, ofs, maxofs) ==
    IF ofs >= maxofs THEN <<lastofs + hint, maxofs + hint>>
    ELSE IF <<key, a[hint + ofs + 1]>> \in less
         THEN <<lastofs + hint, ofs + hint>>
         ELSE GallopRightUp(a, less, key, hint, ofs, 2 * ofs + 1, maxofs)

\* the binary search that ends gallop_right
RECURSIVE BisectRight(_, _, _, _, _)
BisectRight(a, less, key, lastofs, ofs) ==
    IF lastofs >= ofs THEN ofs
    ELSE IF <<key, a[lastofs + ((ofs - lastofs) \div 2) + 1]>> \in less
         THEN BisectRight(a, less, key, lastofs, lastofs + ((ofs - lastofs) \div 2))
         ELSE BisectRight(a, less, key, lastofs + ((ofs - lastofs) \div 2) + 1, ofs)

BisectRightIn(a, less, key, found) == BisectRight(a, less, key, found[1] + 1, found[2])

\* gallop_right: the offset k with a[k-1] <= key < a[k], searched from hint
gallop_right(key, a, hint, less) ==
    BisectRightIn(a, less, key,
                  IF <<key, a[hint + 1]>> \in less
                  THEN GallopRightDown(a, less, key, hint, 0, 1, hint + 1)
                  ELSE GallopRightUp(a, less, key, hint, 0, 1, Len(a) - hint))

\* a merge under way: which loop it is in ("lo_one", "lo_gallop", "hi_one",
\* "hi_gallop", or "done"), the items of a and b left to merge, the items
\* merged so far, the wins in a row of a and of b, and min_gallop
MergeLoop(phase, a, b, dest, acount, bcount, mg) ==
    [phase |-> phase, a |-> a, b |-> b, dest |-> dest,
     acount |-> acount, bcount |-> bcount, min_gallop |-> mg]

\* what a merge leaves: the merged items and ms->min_gallop
Merged(items, mg) == MergeLoop("done", <<>>, <<>>, items, 0, 0, mg)

\* min_gallop -= min_gallop > 1
Eased(mg) == IF mg > 1 THEN mg - 1 ELSE mg

(***************************************************************************)
(* merge_lo: a holds at least two items and b at least one, dest grows     *)
(* from the left.  The merge ends when b is used up (the rest of a         *)
(* follows) or when one item of a is left (the rest of b goes before it).  *)
(***************************************************************************)
\* one item at a time, until one run has won min_gallop times in a row
MergeLoOne(a, b, dest, acount, bcount, mg, less) ==
    IF <<b[1], a[1]>> \in less
    THEN IF Len(b) = 1 THEN Merged(dest \o b \o a, mg)
         ELSE IF bcount + 1 >= mg
         THEN MergeLoop("lo_gallop", a, Tail(b), Append(dest, b[1]), 0, 0, mg + 1)
         ELSE MergeLoop("lo_one", a, Tail(b), Append(dest, b[1]), 0, bcount + 1, mg)
    ELSE IF Len(a) = 2 THEN Merged(Append(dest, a[1]) \o b \o Tail(a), mg)
         ELSE IF acount + 1 >= mg
         THEN MergeLoop("lo_gallop", Tail(a), b, Append(dest, a[1]), 0, 0, mg + 1)
         ELSE MergeLoop("lo_one", Tail(a), b, Append(dest, a[1]), acount + 1, 0, mg)

\* the end of a round of galloping, after k items of b and then a[0] were
\* taken: galloping goes on while either count reaches MIN_GALLOP, and
\* leaving it makes min_gallop one larger
MergeLoTookB(a, b, dest, mg, acount, k, less) ==
    IF k > 0 /\ Len(b) = k THEN Merged(dest \o b \o a, mg)
    ELSE IF Len(a) = 2
    THEN Merged(dest \o SubSeq(b, 1, k) \o <<a[1]>> \o SubSeq(b, k + 1, Len(b)) \o Tail(a), mg)
    ELSE IF acount >= MinGallop \/ k >= MinGallop
    THEN MergeLoop("lo_gallop", Tail(a), SubSeq(b, k + 1, Len(b)),
                   dest \o SubSeq(b, 1, k) \o <<a[1]>>, 0, 0, mg)
    ELSE MergeLoop("lo_one", Tail(a), SubSeq(b, k + 1, Len(b)),
                   dest \o SubSeq(b, 1, k) \o <<a[1]>>, 0, 0, mg + 1)

\* after the k items of a that go before b[0] were taken: b[0] is taken,
\* and the items of b that go before the next item of a
MergeLoTookA(a, b, dest, mg, k, less) ==
    IF k > 0 /\ Len(a) - k <= 1
    THEN Merged(dest \o SubSeq(a, 1, k) \o b \o SubSeq(a, k + 1, Len(a)), mg)
    ELSE IF Len(b) = 1
    THEN Merged(dest \o SubSeq(a, 1, k) \o b \o SubSeq(a, k + 1, Len(a)), mg)
    ELSE MergeLoTookB(SubSeq(a, k + 1, Len(a)), Tail(b),
                      dest \o SubSeq(a, 1, k) \o <<b[1]>>, mg, k,
                      gallop_left(a[k + 1], Tail(b), 0, less), less)

\* a round of galloping: the items of a that go before b[0] are taken at
\* once
MergeLoGallop(a, b, dest, mg, less) ==
    MergeLoTookA(a, b, dest, Eased(mg), gallop_right(b[1], a, 0, less), less)

(***************************************************************************)
(* merge_hi: the same from the right; a holds at least one item and b at   *)
(* least two, dest holds the largest items and grows to the left.  The     *)
(* merge ends when a is used up (the rest of b goes first) or when one     *)
(* item of b is left (the rest of a follows it).                           *)
(***************************************************************************)
MergeHiOne(a, b, dest, acount, bcount, mg, less) ==
    IF <<Last(b), Last(a)>> \in less
    THEN IF Len(a) = 1 THEN Merged(b \o a \o dest, mg)
         ELSE IF acount + 1 >= mg
         THEN MergeLoop("hi_gallop", Front(a), b, <<Last(a)>> \o dest, 0, 0, mg + 1)
         ELSE MergeLoop("hi_one", Front(a), b, <<Last(a)>> \o dest, acount + 1, 0, mg)
    ELSE IF Len(b) = 2 THEN Merged(Front(b) \o a \o <<Last(b)>> \o dest, mg)
         ELSE IF bcount + 1 >= mg
         THEN MergeLoop("hi_gallop", a, Front(b), <<Last(b)>> \o dest, 0, 0, mg + 1)
         ELSE MergeLoop("hi_one", a, Front(b), <<Last(b)>> \o dest, 0, bcount + 1, mg)

\* the end of a round of galloping, after the last k items of b and then
\* the last of a were taken
MergeHiTookB(a, b, dest, mg, acount, k, less) ==
    IF k > 0 /\ Len(b) - k <= 1
    THEN Merged(SubSeq(b, 1, Len(b) - k) \o a \o SubSeq(b, Len(b) - k + 1, Len(b)) \o dest, mg)
    ELSE IF Len(a) = 1
    THEN Merged(SubSeq(b, 1, Len(b) - k) \o a \o SubSeq(b, Len(b) - k + 1, Len(b)) \o dest, mg)
    ELSE IF acount >= MinGallop \/ k >= MinGallop
    THEN MergeLoop("hi_gallop", Front(a), SubSeq(b, 1, Len(b) - k),
                   <<Last(a)>> \o SubSeq(b, Len(b) - k + 1, Len(b)) \o dest, 0, 0, mg)
    ELSE MergeLoop("hi_one", Front(a), SubSeq(b, 1, Len(b) - k),
                   <<Last(a)>> \o SubSeq(b, Len(b) - k + 1, Len(b)) \o dest, 0, 0, mg + 1)

\* after the last k items of a, which go after the last of b, were taken:
\* the last of b is taken, and the items of b that go after the last of a
MergeHiTookA(a, b, dest, mg, k, less) ==
    IF k > 0 /\ Len(a) = k THEN Merged(b \o a \o dest, mg)
    ELSE IF Len(b) = 2
    THEN Merged(Front(b) \o SubSeq(a, 1, Len(a) - k) \o <<Last(b)>>
                    \o SubSeq(a, Len(a) - k + 1, Len(a)) \o dest, mg)
    ELSE MergeHiTookB(SubSeq(a, 1, Len(a) - k), Front(b),
                      <<Last(b)>> \o SubSeq(a, Len(a) - k + 1, Len(a)) \o dest, mg, k,
                      Len(b) - 1 - gallop_left(a[Len(a) - k], Front(b), Len(b) - 2, less),
                      less)

MergeHiGallop(a, b, dest, mg, less) ==
    MergeHiTookA(a, b, dest, Eased(mg),
                 Len(a) - gallop_right(Last(b), a, Len(a) - 1, less), less)

\* one pass of the loop the merge is in
MergeStep(m, less) ==
    CASE m.phase = "lo_one" ->
             MergeLoOne(m.a, m.b, m.dest, m.acount, m.bcount, m.min_gallop, less)
      [] m.phase = "lo_gallop" -> MergeLoGallop(m.a, m.b, m.dest, m.min_gallop, less)
      [] m.phase = "hi_one" ->
             MergeHiOne(m.a, m.b, m.dest, m.acount, m.bcount, m.min_gallop, less)
      [] m.phase = "hi_gallop" -> MergeHiGallop(m.a, m.b, m.dest, m.min_gallop, less)
      [] OTHER -> m

\* up to `steps` passes, the first half of them before the second
RECURSIVE MergeSteps(_, _, _)
MergeSteps(m, steps, less) ==
    IF m.phase = "done" THEN m
    ELSE IF steps <= 1 THEN MergeStep(m, less)
    ELSE MergeSteps(MergeSteps(m, steps \div 2, less), steps - (steps \div 2), less)

\* merge_lo: b[0] is known to go first; every pass takes an item at least
merge_lo(a, b, mg, less) ==
    IF Len(b) = 1 \/ Len(a) = 1 THEN Merged(b \o a, mg)
    ELSE MergeSteps(MergeLoop("lo_one", a, Tail(b), <<b[1]>>, 0, 0, mg),
                    Len(a) + Len(b), less)

\* merge_hi: the last of a is known to go last
merge_hi(a, b, mg, less) ==
    IF Len(a) = 1 \/ Len(b) = 1 THEN Merged(b \o a, mg)
    ELSE MergeSteps(MergeLoop("hi_one", Front(a), b, <<Last(a)>>, 0, 0, mg),
                    Len(a) + Len(b), less)

\* a merge of the middle parts, between the items already in place
Around(head, m, tail) == Merged(head \o m.dest \o tail, m.min_gallop)

\* merge_at, once it is known that the first k items of a stay where they
\* are and that only the first nb items of b do not
MergeBetween(a, b, mg, less, k, nb) ==
    IF nb <= 0 THEN Merged(a \o b, mg)
    ELSE Around(SubSeq(a, 1, k),
                IF Len(a) - k <= nb
                THEN merge_lo(SubSeq(a, k + 1, Len(a)), SubSeq(b, 1, nb), mg, less)
                ELSE merge_hi(SubSeq(a, k + 1, Len(a)), SubSeq(b, 1, nb), mg, less),
                SubSeq(b, nb + 1, Len(b)))

MergeFrom(a, b, mg, less, k) ==
    IF k = Len(a) THEN Merged(a \o b, mg)
    ELSE MergeBetween(a, b, mg, less, k, gallop_left(Last(a), b, Len(b) - 1, less))

\* the merge of two adjacent runs a and b
MergeRuns(a, b, mg, less) == MergeFrom(a, b, mg, less, gallop_right(b[1], a, 0, less))

\* the merge state: the pending runs, each with its items, the offset of its
\* first item in the list and the power of its boundary with the next run,
\* and min_gallop
MergeState(pending, mg) == [pending |-> pending, min_gallop |-> mg]

PendingRun(items, start, power) == [items |-> items, start |-> start, power |-> power]

MergedAt(p, i, m) ==
    MergeState(SubSeq(p, 1, i - 1)
                   \o <<PendingRun(m.dest, p[i].start, p[i].power)>>
                   \o SubSeq(p, i + 2, Len(p)),
               m.min_gallop)

\* merge_at: pending runs i and i + 1 become one
merge_at(ms, i, less) ==
    MergedAt(ms.pending, i,
             MergeRuns(ms.pending[i].items, ms.pending[i + 1].items, ms.min_gallop, less))

\* powerloop: the first bit at which the midpoints a / n and b / n of two
\* adjacent runs differ (a and b are twice the midpoints)
RECURSIVE PowerLoop(_, _, _, _)
PowerLoop(a, b, n, result) ==
    IF a >= n THEN PowerLoop(2 * (a - n), 2 * (b - n), n, result + 1)
    ELSE IF b >= n THEN result + 1
    ELSE PowerLoop(2 * a, 2 * b, n, result + 1)

powerloop(s1, n1, n2, n) == PowerLoop(2 * s1 + n1, 2 * s1 + 2 * n1 + n2, n, 0)

\* found_new_run: the runs below the top one are merged while the power of
\* their boundary is larger than that of the boundary with the new run
RECURSIVE MergedDownTo(_, _, _)
MergedDownTo(ms, power, less) ==
    IF Len(ms.pending) > 1 /\ ms.pending[Len(ms.pending) - 1].power > power
    THEN MergedDownTo(merge_at(ms, Len(ms.pending) - 1, less), power, less)
    ELSE ms

WithPower(ms, power) ==
    MergeState([ms.pending EXCEPT ![Len(ms.pending)].power = power], ms.min_gallop)

FoundWithPower(ms, power, less) == WithPower(MergedDownTo(ms, power, less), power)

found_new_run(ms, n2, n, less) ==
    IF ms.pending = <<>> THEN ms
    ELSE FoundWithPower(ms, powerloop(Last(ms.pending).start,
                                      Len(Last(ms.pending).items), n2, n), less)

Pushed(ms, run, lo) ==
    MergeState(Append(ms.pending, PendingRun(run, lo, 0)), ms.min_gallop)

\* the length of the next run, whose natural run ends at `end`
RunLength(end, nremaining, minrun) ==
    IF end < minrun THEN Min(nremaining, minrun) ELSE end

\* count_run: where the natural run at the head of rest ends, and whether
\* it descends
Descending(rest, less) == Len(rest) >= 2 /\ <<rest[2], rest[1]>> \in less

NaturalRunEnd(rest, less) ==
    IF Len(rest) < 2 THEN Len(rest) ELSE RunEnd(rest, less, Descending(rest, less), 2)

\* the loop of list.sort over the runs of rest, which starts at offset lo
RECURSIVE MergedRunsFrom(_, _, _, _, _, _, _)
RECURSIVE MergedRuns(_, _, _, _, _, _)
MergedRunsFrom(rest, lo, ms, minrun, n, less, length) ==
    MergedRuns(SubSeq(rest, length + 1, Len(rest)), lo + length,
               Pushed(found_new_run(ms, length, n, less),
                      SortFromRun(SubSeq(rest, 1, length), less,
                                  Descending(rest, less), NaturalRunEnd(rest, less)),
                      lo),
               minrun, n, less)

MergedRuns(rest, lo, ms, minrun, n, less) ==
    IF rest = <<>> THEN ms
    ELSE MergedRunsFrom(rest, lo, ms, minrun, n, less,
                        RunLength(NaturalRunEnd(rest, less), Len(rest), minrun))

\* merge_force_collapse: the runs left are merged from the top, the two
\* below the top one first when the third from the top is the shorter
ForcedAt(p) ==
    IF Len(p) > 2 /\ Len(p[Len(p) - 2].items) < Len(p[Len(p)].items)
    THEN Len(p) - 2 ELSE Len(p) - 1

RECURSIVE merge_force_collapse(_, _)
merge_force_collapse(ms, less) ==
    IF Len(ms.pending) <= 1 THEN ms
    ELSE merge_force_collapse(merge_at(ms, ForcedAt(ms.pending), less), less)

\* list.sort() of the positions in `order`
ListSort(order, less) ==
    IF Len(order) < 2 THEN order
    ELSE merge_force_collapse(
             MergedRuns(order, 0, MergeState(<<>>, MinGallop),
                        merge_compute_minrun(Len(order), 0), Len(order), less),
             less).pending[1].items

\* sorted(rows, key, reverse=True): the list is reversed, sorted and
\* reversed again, so that rows with equal keys keep their order
SortedDescending(rows, less) ==
    LET order == Reverse(ListSort(Reverse([i \in 1..Len(rows) |-> i]), less))
    IN  [r \in 1..Len(rows) |-> rows[order[r]]]

\* seq[:n]
FirstN(seq, n) == IF Len(seq) <= n THEN seq ELSE SubSeq(seq, 1, n)

(***************************************************************************)
(* The order of str and the iteration of sets.  Two str compare by the     *)
(* code points of their first characters that differ.  A set of str is     *)
(* iterated in the order of the hashes of its items, and the hash of a str *)
(* depends on the hash seed the interpreter draws when it starts: the      *)
(* order is some order of the items that changes from one process to the   *)
(* next.  Two seeds stand for all of them, one that lists every set in     *)
(* ascending order and one that lists it in descending order.              *)
(***************************************************************************)
\* the characters of Latin-1 by code point, U+0001 to U+00FF; U+0060 cannot
\* be written in a string of this module and is left out
CodePoints ==
    << "","","","","","","","","\t","\n","","\f","\r","","","",
       "","","","","","","","","","","","","","",""," ",
       "!","\"","#","$","%","&","'","(",")","*","+",",","-",".","/","0",
       "1","2","3","4","5","6","7","8","9",":",";","<","=",">","?","@",
       "A","B","C","D","E","F","G","H","I","J","K","L","M","N","O","P",
       "Q","R","S","T","U","V","W","X","Y","Z","[","\\","]","^","_","a",
       "b","c","d","e","f","g","h","i","j","k","l","m","n","o","p","q",
       "r","s","t","u","v","w","x","y","z","{","|","}","~","","","",
       "","","","","","","","","","","","","","","","",
       "","","","","","","","","","","","","",""," ","¡",
       "¢","£","¤","¥","¦","§","¨","©","ª","«","¬","­","®","¯","°","±",
       "²","³","´","µ","¶","·","¸","¹","º","»","¼","½","¾","¿","À","Á",
       "Â","Ã","Ä","Å","Æ","Ç","È","É","Ê","Ë","Ì","Í","Î","Ï","Ð","Ñ",
       "Ò","Ó","Ô","Õ","Ö","×","Ø","Ù","Ú","Û","Ü","Ý","Þ","ß","à","á",
       "â","ã","ä","å","æ","ç","è","é","ê","ë","ì","í","î","ï","ð","ñ",
       "ò","ó","ô","õ","ö","÷","ø","ù","ú","û","ü","ý","þ","ÿ" >>

\* ord(c), up to the two characters left out
Ord(c) == CHOOSE i \in 1..Len(CodePoints) : CodePoints[i] = c

\* a < b of two str that agree before position i
RECURSIVE StrLessFrom(_, _, _)
StrLessFrom(a, b, i) ==
    IF i > Len(a) THEN i <= Len(b)
    ELSE IF i > Len(b) THEN FALSE
    ELSE IF a[i] = b[i] THEN StrLessFrom(a, b, i + 1)
    ELSE Ord(a[i]) < Ord(b[i])

\* a < b of two str
StrLess(a, b) == StrLessFrom(a, b, 1)

\* a list of str left in the order it came in
AsIterated(names) == names

\* sorted(names) of a list of str (lines 190, 422, 424 and 447)
SortedNames(names) ==
    LET order == ListSort([i \in 1..Len(names) |-> i],
                          { p \in Pairs(Len(names)) :
                              StrLess(names[p[1]], names[p[2]]) })
    IN  [r \in 1..Len(names) |-> names[order[r]]]

\* the hash seeds of a process
HashSeeds == {0, 1}

\* the items x of a set of pairs <<i, x>>, for i from 0 up
ByRank(ranked) ==
    SubSeq([ i \in 1..Cardinality(ranked) |-> (CHOOSE p \in ranked : p[1] = i - 1)[2] ],
           1, Cardinality(ranked))

\* the items of a set of str from the least one up: each goes with the
\* number of items of the set below it
Ascending(S) == ByRank({ <<Cardinality({ y \in S : StrLess(y, x) }), x>> : x \in S })

\* the order in which a process of hash seed `seed` iterates the set S
IterOrder(S, seed) == IF seed = 0 THEN Ascending(S) ELSE Reverse(Ascending(S))

\* sorted(S) of a set of str in a process of hash seed `seed`
SortedSet(S, seed) == SortedNames(IterOrder(S, seed))

(***************************************************************************)
(* The per-offer body of the main loop of generate_summary                 *)
(***************************************************************************)
\* what stands for a Decimal where the operation raised InvalidOperation
Raised == <<0, "raised">>

\* d > 0 of a Decimal that is a number or an infinity
DecPositive(d) == IF IsNumber(d) THEN Val(d) > 0 ELSE d[1] > 0

\* su * Decimal(n) < sp * Decimal("0.5") of two Decimals that are numbers
\* or infinities, su > 0
DeclaredBelowHalf(su, sp, n) ==
    IF ~IsNumber(su) THEN FALSE
    ELSE IF ~IsNumber(sp) THEN sp[1] > 0
    ELSE 2 * Val(su) * n < Val(sp)

\* lines 243-252 on the parsed fields: the declared unit price su unless it
\* is missing, not positive, or less than half the listed price per pack;
\* a comparison with a NaN raises InvalidOperation.  sp is the Decimal of
\* `price`, and the Decimal of str(sp) is sp again
DeclaredOrComputed(su, sp, price, seller_pack_count) ==
    IF IsNone(su) THEN compute_unit_price_from_price(price, seller_pack_count)
    ELSE IF su = DecNaN \/ su = DecSNaN THEN Raised
    ELSE IF ~DecPositive(su)
         THEN compute_unit_price_from_price(price, seller_pack_count)
    ELSE IF IsNone(sp) THEN su
    ELSE IF sp = DecNaN \/ sp = DecSNaN THEN Raised
    ELSE IF DeclaredBelowHalf(su, sp, seller_pack_count)
         THEN compute_unit_price_from_price(price, seller_pack_count)
    ELSE su

\* lines 241-252: the seller's unit price
SellerUnitPrice(s) ==
    DeclaredOrComputed(to_decimal(s.unit_price), to_decimal(s.price), s.price,
                       parse_pack_count(s))

\* line 266: seller_unit_price - amazon_unit_price; a signaling NaN and two
\* infinities of one sign raise InvalidOperation; a difference of 0 is
\* -0 only for -0 less 0
DecSub(a, b) ==
    IF a = DecSNaN \/ b = DecSNaN THEN Raised
    ELSE IF a = DecNaN \/ b = DecNaN THEN DecNaN
    ELSE IF ~IsNumber(a) THEN (IF a = b THEN Raised ELSE a)
    ELSE IF ~IsNumber(b) THEN DecInf(0 - b[1])
    ELSE IF a = DecNegZero /\ b = Some(0) THEN DecNegZero
    ELSE Some(Val(a) - Val(b))

\* the quotient where either operand is no finite number: a NaN gives NaN,
\* a number over an infinity 0, an infinity over a number an infinity (over
\* 0 too, with the sign of the zero), and an infinity over an infinity
\* raises
SpecialPct(price_delta_abs, amazon_unit_price) ==
    IF price_delta_abs = DecNaN \/ amazon_unit_price = DecNaN THEN DecNaN
    ELSE IF ~IsNumber(amazon_unit_price)
         THEN (IF IsNumber(price_delta_abs) THEN Some(<<0, 1>>) ELSE None)
    ELSE DecInf(price_delta_abs[1] * DecSign(amazon_unit_price))

\* lines 267-271: (price_delta_abs / amazon_unit_price) * 100, None when the
\* division raises (a number over a zero baseline)
DeltaPct(price_delta_abs, amazon_unit_price) ==
    IF ~IsNumber(price_delta_abs) \/ ~IsNumber(amazon_unit_price)
    THEN SpecialPct(price_delta_abs, amazon_unit_price)
    ELSE IF Val(amazon_unit_price) = 0 THEN None
    ELSE Some(Frac(100 * Val(price_delta_abs), Val(amazon_unit_price)))

\* line 274: float(price_delta_pct) if price_delta_pct is not None else None
PctFloat(price_delta_pct) ==
    IF IsNone(price_delta_pct) THEN None
    ELSE IF IsNumber(price_delta_pct) THEN Some(FloatOfFrac(Val(price_delta_pct)))
    ELSE Some(FloatOfDecimal(price_delta_pct))

\* the rule with either threshold sufficient
ComputedGougingEither(pct_float, abs_float) ==
    \/ ~IsNone(pct_float) /\ DGe(Val(pct_float), DOfInt(PCT_THRESHOLD))
    \/ DGe(abs_float, DOfInt(ABS_THRESHOLD))

\* lines 276-280: both thresholds must be met
ComputedGouging(pct_float, abs_float) ==
    /\ ~IsNone(pct_float)
    /\ DGe(Val(pct_float), DOfInt(PCT_THRESHOLD))
    /\ DGe(abs_float, DOfInt(ABS_THRESHOLD))

\* lines 276-284: the final decision
IsGouging(s, pct_float, abs_float) ==
    \/ ComputedGouging(pct_float, abs_float)
    \/ safe_lower(s.price_flag) = PriceGougingFlag

\* the accumulators of generate_summary before the main loop (lines 139-170)
EmptyAcc ==
    [ total_skus |-> 0,
      products_per_category |-> <<>>,
      skus_per_category |-> <<>>,
      marketplace_skus_per_category |-> <<>>,
      marketplace_asins_seen |-> <<>>,
      unique_sellers |-> {},
      unique_sellers_excl_main |-> {},
      seller_sku_impact |-> <<>>,
      price_flag_counter |-> <<>>,
      rating_tier_counter |-> <<>>,
      top_gouged_candidates |-> <<>>,
      product_variant_summary |-> <<>>,
      total_listings |-> 0,
      total_gouged_listings |-> 0,
      fair_price_count |-> 0,
      all_pct_deltas |-> <<>>,
      all_abs_deltas |-> <<>>,
      seller_gouged_count |-> <<>>,
      seller_gouged_pct_list |-> <<>>,
      sku_gouged_map |-> <<>>,
      category_gouge_stats |-> <<>> ]

\* the default entry of category_gouge_stats
EmptyStats == [total |-> 0, gouged |-> 0, pct_list |-> <<>>, abs_list |-> <<>>]

\* the locals of an offer that the loop skipped before computing anything
NoLocals ==
    [ name |-> <<>>, seller_unit_price |-> None, amazon_unit_price |-> None,
      price_delta_abs |-> None, price_delta_pct |-> None,
      abs_float |-> None, pct_float |-> None, is_gouging |-> FALSE,
      upstream_flag |-> <<>> ]

\* lines 224-239: the sets and counters every named offer feeds
CountSeller(acc, ctx, s) ==
    LET name == Strip(s.seller_name)
        pf == s.price_flag
        tier == classify_rating_tier(s.positive_rating_percent)
    IN  [ acc EXCEPT
            !.unique_sellers = @ \cup {name},
            !.unique_sellers_excl_main =
                IF safe_lower(name) \notin EXCLUDED_SELLERS THEN @ \cup {name} ELSE @,
            !.seller_sku_impact = Put(@, name, Get(@, name, {}) \cup {ctx.asin}),
            !.price_flag_counter = IF pf # <<>> THEN Incr(@, pf) ELSE @,
            !.rating_tier_counter = IF tier # "none" THEN Incr(@, tier) ELSE @ ]

\* the same count without the per-category total
CountUnclassifiedGlobalOnly(acc, ctx, s) ==
    [ acc EXCEPT
        !.total_listings = @ + 1,
        !.fair_price_count =
            IF safe_lower(s.price_flag) = FairPriceFlag THEN @ + 1 ELSE @ ]

\* lines 254-263: an offer without a seller or a baseline unit price
CountUnclassified(acc, ctx, s) ==
    LET st == Get(acc.category_gouge_stats, ctx.category, EmptyStats)
    IN  [ acc EXCEPT
            !.category_gouge_stats =
                Put(@, ctx.category, [st EXCEPT !.total = @ + 1]),
            !.total_listings = @ + 1,
            !.fair_price_count =
                IF safe_lower(s.price_flag) = FairPriceFlag THEN @ + 1 ELSE @ ]

\* lines 286-303: the entry appended to top_gouged_candidates
Candidate(ctx, s, loc) ==
    [ asin |-> ctx.asin,
      product_name |-> ctx.product_name,
      title |-> ctx.title,
      category |-> ctx.category,
      seller_name |-> loc.name,
      amazon_price_unit |-> Some(FloatOfDecimal(loc.amazon_unit_price)),
      seller_price_unit |-> Some(FloatOfDecimal(loc.seller_unit_price)),
      amazon_price_source |-> ctx.amazon_price_source,
      amazon_price_listing |->
          IF ctx.price = JNull THEN None ELSE Some(FloatOfJson(ctx.price)),
      seller_price_listing |->
          IF s.price = JNull THEN None ELSE Some(FloatOfJson(s.price)),
      price_delta_abs |-> loc.abs_float,
      price_delta_percent |-> loc.pct_float,
      detected_as_gouging |-> loc.is_gouging,
      upstream_price_flag |-> s.price_flag ]

\* lines 297-298: float() of a price that is a text and no number raises
\* ValueError, which nothing catches
CandidateRaises(ctx, s) == FloatRaises(ctx.price) \/ FloatRaises(s.price)

\* the same accumulators without the per-seller gouged count
CountClassifiedNoSellerTally(acc, ctx, s, loc) ==
    LET st == Get(acc.category_gouge_stats, ctx.category, EmptyStats)
    IN  [ acc EXCEPT
            !.top_gouged_candidates =
                IF loc.is_gouging THEN Append(@, Candidate(ctx, s, loc)) ELSE @,
            !.total_listings = @ + 1,
            !.category_gouge_stats =
                Put(@, ctx.category,
                    [st EXCEPT !.total = @ + 1,
                               !.gouged = IF loc.is_gouging THEN @ + 1 ELSE @]),
            !.total_gouged_listings = IF loc.is_gouging THEN @ + 1 ELSE @,
            !.sku_gouged_map =
                IF loc.is_gouging
                THEN Put(@, ctx.asin, Get(@, ctx.asin, {}) \cup {loc.name})
                ELSE @ ]

\* lines 305-325: the KPI accumulators of a classified offer
CountClassified(acc, ctx, s, loc) ==
    LET st == Get(acc.category_gouge_stats, ctx.category, EmptyStats)
        pct == loc.pct_float
        abs == loc.abs_float
        st1 == [st EXCEPT !.total = @ + 1]
        st2 == IF ~IsNone(pct) THEN [st1 EXCEPT !.pct_list = Append(@, Val(pct))]
               ELSE st1
        st3 == [st2 EXCEPT !.abs_list = Append(@, Val(abs))]
        st4 == IF loc.is_gouging THEN [st3 EXCEPT !.gouged = @ + 1] ELSE st3
    IN  [ acc EXCEPT
            !.top_gouged_candidates =
                IF loc.is_gouging THEN Append(@, Candidate(ctx, s, loc)) ELSE @,
            !.total_listings = @ + 1,
            !.category_gouge_stats = Put(@, ctx.category, st4),
            !.fair_price_count =
                IF safe_lower(s.price_flag) = FairPriceFlag THEN @ + 1 ELSE @,
            !.all_pct_deltas = IF ~IsNone(pct) THEN Append(@, Val(pct)) ELSE @,
            !.seller_gouged_pct_list =
                IF ~IsNone(pct)
                THEN Put(@, loc.name, Append(Get(@, loc.name, <<>>), Val(pct)))
                ELSE @,
            !.all_abs_deltas = Append(@, Val(abs)),
            !.total_gouged_listings = IF loc.is_gouging THEN @ + 1 ELSE @,
            !.seller_gouged_count =
                IF loc.is_gouging THEN Incr(@, loc.name) ELSE @,
            !.sku_gouged_map =
                IF loc.is_gouging
                THEN Put(@, ctx.asin, Get(@, ctx.asin, {}) \cup {loc.name})
                ELSE @ ]

\* lines 267-284: the locals of an offer, given the difference of its two
\* unit prices and the percentage
Locals(ctx, s, seller_unit_price, price_delta_abs, price_delta_pct) ==
    [ name |-> Strip(s.seller_name),
      seller_unit_price |-> seller_unit_price,
      amazon_unit_price |-> ctx.amazon_unit_price,
      price_delta_abs |-> price_delta_abs,
      price_delta_pct |-> price_delta_pct,
      abs_float |-> Some(FloatOfDecimal(price_delta_abs)),
      pct_float |-> PctFloat(price_delta_pct),
      is_gouging |-> IsGouging(s, PctFloat(price_delta_pct),
                               FloatOfDecimal(price_delta_abs)),
      upstream_flag |-> safe_lower(s.price_flag) ]

\* the locals of an offer whose body raised before it computed anything
RaisedLocals(ctx, s, seller_unit_price) ==
    [NoLocals EXCEPT !.name = Strip(s.seller_name),
                     !.seller_unit_price = seller_unit_price,
                     !.amazon_unit_price = ctx.amazon_unit_price]

\* lines 265-284: the locals of an offer with both unit prices
Classify(ctx, s, seller_unit_price) ==
    IF DecSub(seller_unit_price, ctx.amazon_unit_price) = Raised
    THEN [RaisedLocals(ctx, s, seller_unit_price) EXCEPT !.price_delta_abs = Raised]
    ELSE Locals(ctx, s, seller_unit_price,
                DecSub(seller_unit_price, ctx.amazon_unit_price),
                DeltaPct(DecSub(seller_unit_price, ctx.amazon_unit_price),
                         ctx.amazon_unit_price))

\* lines 286-325: the candidate entry, which may raise, then the accumulators
AfterClassify(seen, ctx, s, loc) ==
    IF loc.price_delta_abs = Raised \/ (loc.is_gouging /\ CandidateRaises(ctx, s))
    THEN [acc |-> seen, outcome |-> "raised", loc |-> loc]
    ELSE [acc |-> CountClassified(seen, ctx, s, loc), outcome |-> "classified", loc |-> loc]

\* lines 245-325: a comparison that raises ends the run; an offer without
\* both unit prices is counted and left
AfterPricing(seen, ctx, s, seller_unit_price) ==
    IF seller_unit_price = Raised
    THEN [acc |-> seen, outcome |-> "raised", loc |-> RaisedLocals(ctx, s, None)]
    ELSE IF IsNone(seller_unit_price) \/ IsNone(ctx.amazon_unit_price)
    THEN [ acc |-> CountUnclassified(seen, ctx, s),
           outcome |-> "unclassified",
           loc |-> [NoLocals EXCEPT !.name = Strip(s.seller_name),
                                    !.seller_unit_price = seller_unit_price,
                                    !.amazon_unit_price = ctx.amazon_unit_price] ]
    ELSE AfterClassify(seen, ctx, s, Classify(ctx, s, seller_unit_price))

\* the body of `for s in (main_s + sellers)` (lines 219-325) for one offer:
\* the accumulators after it, how it ended, and its locals
ProcessOffer(acc, ctx, s) ==
    IF Strip(s.seller_name) = <<>>
    THEN [acc |-> acc, outcome |-> "blank", loc |-> NoLocals]
    ELSE AfterPricing(CountSeller(acc, ctx, s), ctx, s, SellerUnitPrice(s))

(***************************************************************************)
(* The per-family and per-variant steps of the main loop                   *)
(***************************************************************************)
\* item.get("category") or "Unknown"; the category of a family is None
\* (the key is missing) or <<text>>
CategoryOf(item) ==
    IF IsNone(item.category) \/ Val(item.category) = "" THEN "Unknown"
    ELSE Val(item.category)

\* the same counters with every family counted as a single SKU
CountFamilyOneSku(acc, item, seed) ==
    LET category == CategoryOf(item)
    IN  [ acc EXCEPT
            !.total_skus = @ + 1,
            !.products_per_category = Incr(@, category),
            !.skus_per_category = Put(@, category, Get(@, category, 0) + 1) ]

\* lines 174-191: the counters a product family feeds, in a process of
\* hash seed `seed`
CountFamily(acc, item, seed) ==
    LET category == CategoryOf(item)
        variant_count == Len(item.variants)
    IN  [ acc EXCEPT
            !.total_skus = @ + variant_count,
            !.products_per_category = Incr(@, category),
            !.skus_per_category = Put(@, category, Get(@, category, 0) + variant_count),
            !.product_variant_summary =
                Append(@, [ product_name |-> item.product_name,
                            category |-> category,
                            variant_count |-> variant_count,
                            unique_sellers_in_product |->
                                SortedSet(
                                    { Strip(item.seller_market[i].seller_name) :
                                        i \in 1..Len(item.seller_market) },
                                    seed) ]) ]

\* main_by_asin.get(asin, []) (lines 193-196, 208)
MainSellersOf(item, asin) == SelectSeq(item.main_seller, LAMBDA m : m.asin = asin)

\* line 207: the marketplace offers of one asin
MarketSellersOf(item, asin) == SelectSeq(item.seller_market, LAMBDA m : m.asin = asin)

\* the same count remembering only the latest asin of every category
CountMarketplaceSkuLatest(acc, item, asin) ==
    LET category == CategoryOf(item)
        seen == Get(acc.marketplace_asins_seen, category, {})
    IN  IF MarketSellersOf(item, asin) # <<>> /\ asin \notin seen
        THEN [ acc EXCEPT
                 !.marketplace_asins_seen = Put(@, category, {asin}),
                 !.marketplace_skus_per_category = Incr(@, category) ]
        ELSE acc

\* lines 210-213: marketplace SKUs per category
CountMarketplaceSku(acc, item, asin) ==
    LET category == CategoryOf(item)
        seen == Get(acc.marketplace_asins_seen, category, {})
    IN  IF MarketSellersOf(item, asin) # <<>> /\ asin \notin seen
        THEN [ acc EXCEPT
                 !.marketplace_asins_seen = Put(@, category, seen \cup {asin}),
                 !.marketplace_skus_per_category = Incr(@, category) ]
        ELSE acc

\* line 219: main_s + sellers
OffersOf(item, asin) == MainSellersOf(item, asin) \o MarketSellersOf(item, asin)

\* the context of the loop over the offers of variant v, given its baseline
ContextWith(item, v, b) ==
    [ asin |-> v.asin,
      title |-> IF v.title # <<>> THEN v.title
                ELSE IF v.variant_name # <<>> THEN v.variant_name
                ELSE <<v.asin>>,
      category |-> CategoryOf(item),
      product_name |-> item.product_name,
      price |-> v.price,
      amazon_unit_price |-> b.price,
      amazon_price_source |-> b.source,
      offers |-> OffersOf(item, v.asin) ]

\* lines 199-216: what the loop over the offers of variant v works with
VariantContext(item, v) ==
    ContextWith(item, v,
        choose_amazon_baseline_for_asin(
            MainSellersOf(item, v.asin),
            compute_unit_price_from_price(v.price, parse_pack_count(v))))

NoContext ==
    [ asin |-> "", title |-> <<>>, category |-> "", product_name |-> "",
      price |-> JNull, amazon_unit_price |-> None, amazon_price_source |-> "none",
      offers |-> <<>> ]

(***************************************************************************)
(* Input snapshots                                                         *)
(***************************************************************************)
\* the Decimal of an amount given in cents
Cents(n) == n * (DecimalOne \div 100)

MkOffer(name, id, asin, price, unit_price, flag, title) ==
    [ seller_name |-> name, seller_id |-> id, asin |-> asin, price |-> price,
      unit_price |-> unit_price, price_flag |-> flag,
      positive_rating_percent |-> JNull,
      title |-> title, size |-> <<>>, variant_name |-> <<>>,
      variant_dimensions |-> NoDims ]

MkVariant(asin, price, title) ==
    [ asin |-> asin, price |-> price, title |-> title, size |-> <<>>,
      variant_name |-> <<>>, variant_dimensions |-> NoDims ]

MkFamily(category, variants, main_seller, seller_market) ==
    [ product_name |-> "Bars", category |-> category, variants |-> variants,
      main_seller |-> main_seller, seller_market |-> seller_market ]

NoOffer == MkOffer(<<>>, "", "", JNull, JNull, <<>>, <<>>)

NameAmazon == <<"A","m","a","z","o","n",".","c","o","m">>

NameWarehouse == <<"A","M","A","Z","O","N"," ","W","a","r","e","h","o","u","s","e">>

NameShop == <<"S","h","o","p">>

NameShopCaps == <<"S","H","O","P">>

NameOther == <<"O","t","h","e","r">>

NameBlank == <<" ">>

\* "price gouging" as an upstream feed may spell it
FlagGougingSpelled == <<" ","P","r","i","c","e"," ","G","o","u","g","i","n","g">>

FlagHigh == <<"h","i","g","h"," ","p","r","i","c","e">>

TitlePackOf2 == <<"P","a","c","k"," ","o","f"," ","2">>

TitlePackOf3 == <<"B","a","r","s"," ","(","p","a","c","k"," ","3",")">>

TitleSnackBars == <<"S","n","a","c","k"," ","B","a","r","s"," ","P","a","c","k"," ","o","f"," ","1","2",","," ","1",".","4","o","z">>

\* the longest marketplace list of a classification snapshot
MaxMarket == 2

\* sequences over S of length at most n
RECURSIVE SeqsUpTo(_, _)
SeqsUpTo(S, n) ==
    IF n = 0 THEN {<<>>}
    ELSE LET shorter == SeqsUpTo(S, n - 1)
         IN  shorter \cup {Append(t, x) : t \in shorter, x \in S}

(***************************************************************************)
(* Classification snapshots: one family with one variant "A1", a baseline  *)
(* context and a marketplace list of priced and flagged offers.            *)
(***************************************************************************)
MarketFlags == {<<>>, FairPriceFlag, FlagGougingSpelled, FlagHigh}

MarketPrices ==
    { JText, JNum(Cents(500)), JNum(Cents(600)), JNum(Cents(650)),
      JNum(Cents(700)), JNum(Cents(750)), JNum(Cents(1200)),
      JNum(Cents(2300)), JNum(Cents(6000)) }

ClassifyOffers ==
    { MkOffer(NameShop, "", "A1", p, JNull, f, <<>>) :
        p \in MarketPrices, f \in MarketFlags }
    \cup { MkOffer(NameBlank, "", "A1", JNum(Cents(6000)), JNull,
                   FlagGougingSpelled, <<>>) }

\* the offers that may follow the first one of a marketplace list
FollowOffers ==
    { MkOffer(NameOther, "", "A1", JNum(Cents(750)), JNull, <<>>, <<>>),
      MkOffer(NameShop, "", "A1", JNum(Cents(500)), JNull, FairPriceFlag, <<>>),
      MkOffer(NameOther, "", "A1", JNum(Cents(6000)), JNull, FairPriceFlag, <<>>),
      MkOffer(NameOther, "", "A1", JText, JNull, FlagGougingSpelled, <<>>) }

ClassifyLists ==
    { <<o>> \o t : o \in ClassifyOffers, t \in SeqsUpTo(FollowOffers, MaxMarket - 1) }

\* <<variants, main_seller>>: a baseline of 5.00 from the variant, of 5.00
\* from Amazon with a variant price that is no number, of 0, of 10.00 from
\* the variant, none at all, and of 20.00 from a pack of three
ClassifyContexts ==
    { << <<MkVariant("A1", JNum(Cents(500)), <<>>)>>, <<>> >>,
      << <<MkVariant("A1", JText, <<>>)>>,
         <<MkOffer(NameAmazon, "", "A1", JNum(Cents(500)), JNull, <<>>, <<>>)>> >>,
      << <<MkVariant("A1", JNull, <<>>)>>,
         <<MkOffer(NameAmazon, "", "A1", JNum(0), JNull, <<>>, <<>>)>> >>,
      << <<MkVariant("A1", JNum(Cents(1000)), <<>>)>>, <<>> >>,
      << <<MkVariant("A1", JNull, <<>>)>>, <<>> >>,
      << <<MkVariant("A1", JNum(Cents(500)), <<>>)>>,
         <<MkOffer(NameWarehouse, "", "A1", JNum(Cents(6000)), JNull, <<>>,
                   TitlePackOf3)>> >> }

ClassifySnapshots ==
    { <<MkFamily(Some("Snacks"), c[1], c[2], m)>> : c \in ClassifyContexts, m \in ClassifyLists }

(***************************************************************************)
(* Unit-price snapshots: one offer with a declared unit price, a listed    *)
(* price and a pack size, as a marketplace offer or as the primary offer.  *)
(***************************************************************************)
DeclaredUnitPrices ==
    { JNull, JText, JNum(0), JNum(0 - Cents(100)), JNum(Cents(100)),
      JNum(Cents(300)), JNum(Cents(750)), JNum(Cents(750) + 5) }

ListedPrices == {JNull, JText, JNum(Cents(600)), JNum(Cents(1500))}

UnitPriceOffers(name) ==
    { MkOffer(name, "", "A1", p, u, <<>>, t) :
        p \in ListedPrices, u \in DeclaredUnitPrices, t \in {<<>>, TitlePackOf2} }

UnitPriceSnapshots ==
    { <<MkFamily(Some("Snacks"), <<MkVariant("A1", JNum(Cents(500)), <<>>)>>, <<>>, <<o>>)>> :
        o \in UnitPriceOffers(NameShop) }
    \cup
    { <<MkFamily(Some("Snacks"), <<MkVariant("A1", JNum(Cents(500)), <<>>)>>, <<o>>, <<>>)>> :
        o \in UnitPriceOffers(NameAmazon) }

(***************************************************************************)
(* Overlap snapshots: two offers whose seller names and ids may coincide,  *)
(* one primary and one marketplace offer or two marketplace offers.        *)
(***************************************************************************)
OverlapOffers ==
    { MkOffer(n, id, "A1", JNum(Cents(750)), JNull, <<>>, <<>>) :
        n \in {NameShop, NameShopCaps, NameOther}, id \in {"", "S1"} }

OverlapSnapshots ==
    { <<MkFamily(Some("Snacks"), <<MkVariant("A1", JNum(Cents(500)), <<>>)>>, <<x>>, <<y>>)>> :
        x \in OverlapOffers, y \in OverlapOffers }
    \cup
    { <<MkFamily(Some("Snacks"), <<MkVariant("A1", JNum(Cents(500)), <<>>)>>, <<>>, <<x, y>>)>> :
        x \in OverlapOffers, y \in OverlapOffers }

(***************************************************************************)
(* Catalog snapshots: up to two families, two categories, a family whose   *)
(* category is "" and one without a category, a variant without an asin    *)
(* and offers of an asin no variant carries.                               *)
(***************************************************************************)
CatalogFamilies ==
    { MkFamily(Some("Snacks"),
               << MkVariant("A1", JNum(Cents(500)), <<>>),
                  MkVariant("", JNum(Cents(500)), <<>>) >>,
               <<>>,
               << MkOffer(NameShop, "", "A1", JNum(Cents(750)), JNull, <<>>, <<>>),
                  MkOffer(NameOther, "", "A9", JNum(Cents(750)), JNull, <<>>, <<>>) >>),
      MkFamily(Some(""),
               << MkVariant("A2", JNum(Cents(2000)), TitlePackOf2),
                  MkVariant("A1", JNull, <<>>) >>,
               << MkOffer(NameAmazon, "", "A2", JNum(Cents(1000)), JNull, <<>>, <<>>) >>,
               << MkOffer(NameShop, "", "A2", JNum(Cents(1500)), JNull,
                          FlagGougingSpelled, <<>>),
                  MkOffer(NameOther, "", "A1", JNum(Cents(750)), JNull,
                          FairPriceFlag, <<>>) >>),
      MkFamily(Some("Snacks"),
               << MkVariant("A1", JNum(Cents(500)), <<>>),
                  MkVariant("A1", JNum(Cents(500)), <<>>),
                  MkVariant("A3", JNum(Cents(500)), <<>>) >>,
               <<>>,
               << MkOffer(NameShop, "", "A1", JNum(Cents(750)), JNull, <<>>, <<>>),
                  MkOffer(NameOther, "", "A3", JNum(Cents(6000)), JNull, <<>>, <<>>) >>),
      MkFamily(Some("Bars"),
               << MkVariant("A4", JNum(Cents(500)), <<>>) >>,
               <<>>,
               << MkOffer(NameWarehouse, "", "A4", JNum(Cents(750)), JNull, <<>>, <<>>) >>),
      MkFamily(Some("Bars"), <<>>, <<>>, <<>>),
      MkFamily(None, << MkVariant("A5", JNum(Cents(500)), <<>>) >>, <<>>, <<>>) }

CatalogSnapshots == SeqsUpTo(CatalogFamilies, 2)

(***************************************************************************)
(* Rating snapshots: marketplace offers of two sellers, rated or not, at a *)
(* price above or below the baseline, and a rated offer with a blank name. *)
(***************************************************************************)
Ratings == {JNull, JText, JNum(10), JNum(50), JNum(95), JNaN, JInf(1), JInf(0 - 1)}

MkRated(name, price, rating) ==
    [ MkOffer(name, "", "A1", price, JNull, <<>>, <<>>)
        EXCEPT !.positive_rating_percent = rating ]

RatedOffers ==
    { MkRated(n, JNum(Cents(750)), r) : n \in {NameShop, NameOther}, r \in Ratings }
    \cup { MkRated(NameOther, JNum(Cents(400)), JNum(95)),
            [ MkRated(NameBlank, JNum(Cents(750)), JNum(10))
                EXCEPT !.price_flag = FairPriceFlag ] }

RatingSnapshots ==
    { <<MkFamily(Some("Snacks"), <<MkVariant("A1", JNum(Cents(500)), <<>>)>>, <<>>, ms)>> :
        ms \in SeqsUpTo(RatedOffers, MaxMarket) }

(***************************************************************************)
(* Baseline snapshots: a list of primary offers (named like Amazon or not, *)
(* priced or not, of this asin or another) and a variant priced or not.    *)
(***************************************************************************)
\* the longest primary list of a baseline snapshot
MaxMain == 2

BaselineOffers ==
    { MkOffer(NameAmazon, "", "A1", JNum(Cents(500)), JNull, <<>>, <<>>),
      MkOffer(NameAmazon, "", "A1", JText, JNull, <<>>, <<>>),
      MkOffer(NameShop, "", "A1", JNum(Cents(600)), JNull, <<>>, <<>>),
      MkOffer(NameShop, "", "A1", JText, JNull, <<>>, <<>>),
      MkOffer(NameWarehouse, "", "A1", JNum(Cents(6000)), JNull, <<>>, TitlePackOf3),
      MkOffer(NameAmazon, "", "A2", JNum(Cents(900)), JNull, <<>>, <<>>) }

BaselineVariants ==
    { MkVariant("A1", p, t) :
        p \in {JNull, JText, JNum(Cents(400))}, t \in {<<>>, TitlePackOf2} }

BaselineSnapshots ==
    { <<MkFamily(Some("Snacks"), <<v>>, ms,
                 <<MkOffer(NameShop, "", "A1", JNum(Cents(750)), JNull, <<>>, <<>>)>>)>> :
        v \in BaselineVariants, ms \in SeqsUpTo(BaselineOffers, MaxMain) }

(***************************************************************************)
(* Ranking snapshots: offers admitted by the upstream flag at a price      *)
(* below, at and above the baseline, some without a seller name, and one   *)
(* list of more than TOP_N flagged offers.                                 *)
(***************************************************************************)
FlaggedOffers ==
    { MkOffer(n, "", "A1", JNum(Cents(c)), JNull, FlagGougingSpelled, <<>>) :
        n \in {NameShop, NameOther, <<>>}, c \in {400, 500, 750} }

LongFlaggedList ==
    [ i \in 1..(TOP_N + 1) |->
        MkOffer(NameShop, "", "A1", JNum(Cents(500 + 10 * i)), JNull,
                FlagGougingSpelled, <<>>) ]

RankingSnapshots ==
    { <<MkFamily(Some("Snacks"), <<MkVariant("A1", JNum(Cents(500)), <<>>)>>, <<>>, ms)>> :
        ms \in SeqsUpTo(FlaggedOffers, MaxMarket) \cup {LongFlaggedList} }

(***************************************************************************)
(* Non-finite snapshots: listed prices and declared unit prices that       *)
(* Decimal() reads as NaN, as a signaling NaN or as an infinity, on the    *)
(* primary offer that gives the baseline, if any, and on a marketplace     *)
(* offer that another offer follows.                                       *)
(***************************************************************************)
NonFinitePrices == {JNaN, JNaNPayload, JSNaN, JInf(1), JInf(0 - 1)}

OddUnitPrices == {JNull, JNum(Cents(100)), JNaN, JSNaN, JInf(1), JInf(0 - 1)}

OddOffers ==
    { MkOffer(NameShop, "", "A1", p, u, f, <<>>) :
        p \in {JNum(Cents(750))} \cup NonFinitePrices,
        u \in OddUnitPrices,
        f \in {<<>>, FlagGougingSpelled} }

NonFiniteSnapshots ==
    { <<MkFamily(Some("Snacks"), <<MkVariant("A1", JNull, <<>>)>>,
                 <<MkOffer(NameAmazon, "", "A1", b, JNull, <<>>, <<>>)>>,
                 <<o, MkOffer(NameOther, "", "A1", JNum(Cents(750)), JNull, <<>>, <<>>)>>)>> :
        b \in {JNull, JNum(Cents(500)), JNaN, JSNaN, JInf(1), JInf(0 - 1)},
        o \in OddOffers }

(***************************************************************************)
(* Signed-zero snapshots: a baseline of 0.0000 or -0.0000 (a price of      *)
(* -0.00004, or -0.0) against offers whose unit price is an infinity or a  *)
(* zero of either sign.                                                    *)
(***************************************************************************)
ZeroPrices == {JNum(0), JNum(0 - 4), JNegZero}

ZeroOffers ==
    { MkOffer(NameShop, "", "A1", p, u, f, <<>>) :
        p \in {JNum(Cents(750))} \cup ZeroPrices,
        u \in {JNull, JInf(1), JInf(0 - 1)},
        f \in {<<>>, FlagGougingSpelled} }

SignedZeroSnapshots ==
    { <<MkFamily(Some("Snacks"), <<MkVariant("A1", JNull, <<>>)>>,
                 <<MkOffer(NameAmazon, "", "A1", b, JNull, <<>>, <<>>)>>,
                 <<o>>)>> :
        b \in ZeroPrices, o \in ZeroOffers }

(***************************************************************************)
(* Tie snapshots: two sellers whose average overprice is the same number,  *)
(* 50/3, and not the same float, in both orders; and single offers that    *)
(* put the health score halfway between two hundredths.                    *)
(***************************************************************************)
TieVariants ==
    << MkVariant("A1", JNum(Cents(900)), <<>>),
       MkVariant("A2", JNum(Cents(800)), <<>>),
       MkVariant("A3", JNum(Cents(1200)), <<>>) >>

TieOffersShop ==
    << MkOffer(NameShop, "", "A1", JNum(Cents(1000)), JNull, <<>>, <<>>),
       MkOffer(NameShop, "", "A1", JNum(Cents(1100)), JNull, <<>>, <<>>) >>

TieOffersOther ==
    << MkOffer(NameOther, "", "A2", JNum(Cents(1000)), JNull, <<>>, <<>>),
       MkOffer(NameOther, "", "A3", JNum(Cents(1300)), JNull, <<>>, <<>>) >>

\* listed prices and titles that give unit prices of 8.005, 10.001, 8.007
\* and 8.009
HalfwayOffers ==
    { MkOffer(NameShop, "", "A1", JNum(Cents(1601)), JNull, <<>>, TitlePackOf2),
      MkOffer(NameShop, "", "A1", JNum(Cents(1000) + 100), JNull, <<>>, <<>>),
      MkOffer(NameShop, "", "A1", JNum(Cents(800) + 700), JNull, <<>>, <<>>),
      MkOffer(NameShop, "", "A1", JNum(Cents(800) + 900), JNull, <<>>, <<>>) }

TieSnapshots ==
    { <<MkFamily(Some("Snacks"), TieVariants, <<>>, ms)>> :
        ms \in {TieOffersShop \o TieOffersOther, TieOffersOther \o TieOffersShop} }
    \cup
    { <<MkFamily(Some("Snacks"), <<MkVariant("A1", JNum(Cents(800)), <<>>)>>, <<>>, <<o>>)>> :
        o \in HalfwayOffers }

Snapshots ==
    ClassifySnapshots \cup UnitPriceSnapshots \cup OverlapSnapshots
        \cup CatalogSnapshots \cup BaselineSnapshots \cup RatingSnapshots
        \cup RankingSnapshots \cup NonFiniteSnapshots \cup SignedZeroSnapshots
        \cup TieSnapshots

(***************************************************************************)
(* Calls of the helper functions on their own                              *)
(***************************************************************************)
\* the largest price of a unit-price call, in 1e-5 units
MaxUnits == 30

\* the largest pack count of a unit-price call
MaxPack == 4

UnitPriceCalls ==
    { [fn |-> "compute_unit_price_from_price", arg |-> <<p, k>>, result |-> <<>>] :
        p \in {JNull, JText, JNegZero} \cup {JNum(n) : n \in (0 - MaxUnits)..MaxUnits}
              \cup {JNum(Cents(100)), JNum(Cents(200)), JNum(Cents(400))}
              \cup NonFinitePrices,
        k \in 0..MaxPack }

TextPackOf0 == <<"p","a","c","k"," ","o","f"," ","0">>

TextSixCount == <<"6"," ","c","o","u","n","t">>

TextPackOf == <<"P","a","c","k"," ","o","f">>

PackTexts == {<<>>, TitleSnackBars, TextPackOf0, TextSixCount, TextPackOf}

PackDims ==
    { [number_of_items |-> a, number_of_items_string |-> b, count |-> c, items |-> d] :
        a \in {DimNone, DimInt(3), DimStr(<<"a","b","c">>), DimStr(<<"0">>)},
        b \in {DimNone, DimStr(<<"1","2"," ","c","t">>)},
        c \in {DimNone, DimInt(0 - 2)},
        d \in {DimNone, DimInt(3), DimStr(<<"a","b","c">>), DimStr(<<"0">>)} }

PackCalls ==
    { [ fn |-> "parse_pack_count",
        arg |-> [size |-> x, title |-> y, variant_name |-> z, variant_dimensions |-> d],
        result |-> <<>> ] :
        x \in PackTexts, y \in PackTexts, z \in PackTexts, d \in PackDims }

\* a run of one digit more than int() accepts
LongDigits == [i \in 1..(IntMaxStrDigits + 1) |-> "9"]

TextPackOfLong ==
    <<"p","a","c","k"," ","o","f"," ">> \o LongDigits \o <<" ">> \o TextSixCount

\* calls whose dimension field or text holds such a run
LongDigitCalls ==
    { [ fn |-> "parse_pack_count",
        arg |-> [size |-> x, title |-> y, variant_name |-> <<>>,
                 variant_dimensions |-> [NoDims EXCEPT !.number_of_items = a, !.count = c]],
        result |-> <<>> ] :
        x \in {<<>>}, y \in {<<>>, TextPackOf0},
        a \in {DimStr(LongDigits)}, c \in {DimNone, DimInt(0 - 2)} }
    \cup
    { [ fn |-> "parse_pack_count",
        arg |-> [size |-> TextPackOfLong, title |-> y, variant_name |-> <<>>,
                 variant_dimensions |-> NoDims],
        result |-> <<>> ] : y \in {<<>>, TextPackOf0} }

NoCall == [fn |-> "none", arg |-> <<>>, result |-> <<>>]

(***************************************************************************)
(* The product explorer (pages/products.py): the pagination of the grouped *)
(* products.  Streamlit runs the script again, top to bottom, on every     *)
(* click and every change of a widget; st.session_state.page survives.     *)
(***************************************************************************)
\* the most groups a filter leaves
MaxGroups == 45

\* the options of "Items per page"; the first one is the default
PageSizes == {10, 20, 50, 100}

DefaultPageSize == 10

\* max(1, len(grouped_products))
total_groups(groups) == Max(1, groups)

\* max(1, (total_groups + page_size - 1) // page_size)
total_pages(groups, page_size) ==
    Max(1, (total_groups(groups) + page_size - 1) \div page_size)

\* the page kept as it is
KeepPage(page, pages) == page

\* lines 973-974: a page above total_pages is set to total_pages
ClampPage(page, pages) == IF page > pages THEN pages ELSE page

\* the page state before the explorer was opened: no page in the session
NoPage ==
    [ rendered |-> FALSE, page |-> None, page_size |-> DefaultPageSize,
      groups |-> 0, total_pages |-> 0, entered |-> None, sliced |-> 0,
      start |-> 0, clicked |-> "none" ]

\* one run of the script (lines 966-980, 1148-1156) with the session page
\* `page`, page_size items per page, `groups` groups after the filters and
\* the button that was clicked, if any
RunScript(page, page_size, groups, clicked) ==
    LET pages == total_pages(groups, page_size)
        initial == IF IsNone(page) THEN 1 ELSE Val(page)
        clamped == ClampPage(initial, pages)
        after == IF clicked = "Previous" /\ clamped > 1 THEN clamped - 1
                 ELSE IF clicked = "Next" /\ clamped < pages THEN clamped + 1
                 ELSE clamped
    IN  [ rendered |-> TRUE, page |-> Some(after), page_size |-> page_size,
          groups |-> groups, total_pages |-> pages, entered |-> page,
          sliced |-> clamped, start |-> (clamped - 1) * page_size,
          clicked |-> clicked ]

(***************************************************************************)
(* The state machine                                                       *)
(*                                                                         *)
(* pc is "family" between two product families, "variant" between two      *)
(* variants of family fi, "offer" between two offers of variant vi, "done" *)
(* after the summary is built, "raised" after an uncaught exception,       *)
(* "load" before the input file is read and "call" in the runs that call   *)
(* one helper function.  `source` tells whether the input file can be read *)
(* ("ok"), is missing or holds no valid JSON; `data` is what it holds.     *)
(* `out` is the output file.  generate_summary may be called again once a  *)
(* run has ended: `run` counts the calls and `first` keeps how the first   *)
(* one ended.  `stdout` is the encoding of the standard output the script  *)
(* prints to and `hashseed` the hash seed of the process that runs it.     *)
(***************************************************************************)
VARIABLES data, pc, fi, vi, oi, cur, acc, last, out, call, source, run, first, ui,
          stdout, hashseed

vars == <<data, pc, fi, vi, oi, cur, acc, last, out, call, source, run, first, ui,
          stdout, hashseed>>

NoFold == [outcome |-> "none", s |-> NoOffer, loc |-> NoLocals, before |-> EmptyAcc]

NoOut == [written |-> FALSE]

\* line 331: the SKUs with at least one gouging seller
SkusImpacted(a) ==
    Cardinality({i \in 1..Len(a.sku_gouged_map) : a.sku_gouged_map[i].v # {}})

\* lines 342-349: one row per seller with a gouged listing
SellerRows(a) ==
    [ i \in 1..Len(a.seller_gouged_count) |->
        [ seller_name |-> a.seller_gouged_count[i].k,
          gouged_listings |-> a.seller_gouged_count[i].v,
          avg_overprice_pct |->
              DMean(Get(a.seller_gouged_pct_list, a.seller_gouged_count[i].k, <<>>)) ] ]

\* the key (gouged_listings, avg_overprice_pct) of x less than that of y:
\* tuples compare by their first items that are not equal
SellerKeyLess(x, y) ==
    \/ x.gouged_listings < y.gouged_listings
    \/ /\ x.gouged_listings = y.gouged_listings
       /\ DLt(x.avg_overprice_pct, y.avg_overprice_pct)

\* line 351: the rows, most gouged first
SortedSellerRows(rows) ==
    SortedDescending(rows, { p \in Pairs(Len(rows)) :
                               SellerKeyLess(rows[p[1]], rows[p[2]]) })

\* lines 342-351: one row per seller with a gouged listing, most gouged first
SellerSummary(a) == SortedSellerRows(SellerRows(a))

\* lines 354-368: one row per category
CategoryRows(a) ==
    [ i \in 1..Len(a.category_gouge_stats) |->
        [ category |-> a.category_gouge_stats[i].k,
          total_listings |-> a.category_gouge_stats[i].v.total,
          gouged_listings |-> a.category_gouge_stats[i].v.gouged,
          gouging_rate |-> RateOf(a.category_gouge_stats[i].v.gouged,
                                  a.category_gouge_stats[i].v.total),
          avg_overprice_pct |-> DMean(a.category_gouge_stats[i].v.pct_list),
          avg_overprice_abs |-> DMean(a.category_gouge_stats[i].v.abs_list) ] ]

\* line 370: the rows, highest gouging rate first
SortedCategoryRows(rows) ==
    SortedDescending(rows, { p \in Pairs(Len(rows)) :
                               DLt(rows[p[1]].gouging_rate, rows[p[2]].gouging_rate) })

\* lines 354-370: one row per category, highest gouging rate first
CategorySummary(a) == SortedCategoryRows(CategoryRows(a))

\* lines 376-378: the marketplace offers of every family, in file order
RECURSIVE MarketOffersIn(_, _, _)
MarketOffersIn(d, lo, hi) ==
    IF lo > hi THEN <<>>
    ELSE IF lo = hi THEN d[lo].seller_market
    ELSE MarketOffersIn(d, lo, (lo + hi) \div 2)
             \o MarketOffersIn(d, (lo + hi) \div 2 + 1, hi)

MarketOffersOf(d, n) == MarketOffersIn(d, 1, n)

\* lines 379-382: the first offer of every seller name
RatedOnce(offers) ==
    { i \in 1..Len(offers) :
        /\ offers[i].seller_name # <<>>
        /\ \A j \in 1..(i - 1) : offers[j].seller_name # offers[i].seller_name }

\* line 387: float(pr) < 50; a float() that raises is passed over
RatedBad(pr) ==
    \/ pr[1] = "num" /\ pr[2] < 50
    \/ pr[1] = "inf" /\ pr[2] < 0

\* lines 383-385: the offers of `picked` that carry a rating
RatedOf(offers, picked) ==
    { i \in picked : offers[i].positive_rating_percent # JNull }

\* lines 373-392 on the marketplace offers and those of them that count
BadShare(offers, rated) ==
    RateOf(Cardinality({ i \in rated : RatedBad(offers[i].positive_rating_percent) }),
           Cardinality(rated))

\* lines 373-392: the share of rated sellers with a rating under 50
PropBadSellers(d) ==
    BadShare(MarketOffersOf(d, Len(d)),
             RatedOf(MarketOffersOf(d, Len(d)), RatedOnce(MarketOffersOf(d, Len(d)))))

\* 0.5, 0.4 and 0.1 as floats
Half == NearestQuotient(1, 1, 2)

TwoFifths == NearestQuotient(1, 2, 5)

Tenth == NearestQuotient(1, 1, 10)

\* line 397: 100.0 - gouging_rate * 0.5 - avg_overprice_pct * 0.4
\*           - prop_bad_sellers * 0.1
RawHealth(gouging_rate, avg_overprice_pct, prop_bad_sellers) ==
    DSub(DSub(DSub(DOfInt(100), DMul(gouging_rate, Half)),
              DMul(avg_overprice_pct, TwoFifths)),
         DMul(prop_bad_sellers, Tenth))

\* max(0.0, min(100.0, round(h, 2))) in hundredths: round() keeps a nan and
\* an infinity, min(100.0, nan) is 100.0 since nan < 100.0 is false, and a
\* float beyond -1 or 101 is clamped whatever it rounds to
ClampedHundredths(h) ==
    IF IsNaN(h) THEN 100 * 100
    ELSE IF ~IsFin(h) THEN (IF h[2] > 0 THEN 100 * 100 ELSE 0)
    ELSE IF DLt(DOfInt(101), h) THEN 100 * 100
    ELSE IF DLt(h, DOfInt(0 - 1)) THEN 0
    ELSE Max(0, Min(100 * 100, RoundHundredths(h)))

\* round(h, 2) in hundredths, left unclamped where h is finite
UnclampedHundredths(h) ==
    IF IsFin(h) THEN RoundHundredths(h) ELSE ClampedHundredths(h)

\* the health score rounded and left unclamped, in hundredths
HealthScoreUnclamped(gouging_rate, avg_overprice_pct, prop_bad_sellers) ==
    UnclampedHundredths(RawHealth(gouging_rate, avg_overprice_pct, prop_bad_sellers))

\* lines 397-398: the marketplace health score, in hundredths
HealthScore(gouging_rate, avg_overprice_pct, prop_bad_sellers) ==
    ClampedHundredths(RawHealth(gouging_rate, avg_overprice_pct, prop_bad_sellers))

\* lines 401-404: the rows of seller_sku_impact
ImpactRows(a) ==
    [ i \in 1..Len(a.seller_sku_impact) |->
        [ k |-> a.seller_sku_impact[i].k,
          v |-> Cardinality(a.seller_sku_impact[i].v) ] ]

SortedImpactRows(rows) ==
    SortedDescending(rows, { p \in Pairs(Len(rows)) : rows[p[1]].v < rows[p[2]].v })

\* lines 401-404: the number of SKUs of every seller, most SKUs first
SellerImpact(a) == SortedImpactRows(ImpactRows(a))

\* line 408: x.get("price_delta_percent") or -999; 0.0 is false, nan is not
GougedKey(x) ==
    IF IsNone(x.price_delta_percent) \/ DIsZero(Val(x.price_delta_percent))
    THEN DOfInt(0 - 999)
    ELSE Val(x.price_delta_percent)

\* the keys of the candidates, computed once
GougedKeys(rows) == [i \in 1..Len(rows) |-> GougedKey(rows[i])]

SortedByKeys(rows, keys) ==
    SortedDescending(rows, { p \in Pairs(Len(rows)) : DLt(keys[p[1]], keys[p[2]]) })

\* lines 406-410: the TOP_N candidates of highest overprice
TopGouged(a) ==
    FirstN(SortedByKeys(a.top_gouged_candidates, GougedKeys(a.top_gouged_candidates)),
           TOP_N)

\* line 447: every set of sku_gouged_map as a sorted list
SortedGougedMap(m, seed) ==
    [ i \in 1..Len(m) |-> [k |-> m[i].k, v |-> SortedSet(m[i].v, seed)] ]

\* line 344 reads seller_gouged_pct_list[seller] of every seller with a
\* gouged listing, and reading a defaultdict adds the key it misses
RECURSIVE ReadPctListsIn(_, _, _, _)
ReadPctListsIn(lists, counts, lo, hi) ==
    IF lo > hi \/ ~Computed(lists) THEN lists
    ELSE IF lo = hi THEN Touch(lists, counts[lo].k, <<>>)
    ELSE ReadPctListsIn(ReadPctListsIn(lists, counts, lo, (lo + hi) \div 2),
                        counts, (lo + hi) \div 2 + 1, hi)

ReadPctLists(lists, counts, n) == ReadPctListsIn(lists, counts, 1, n)

\* the accumulators once the summary is built
AfterSummary(a) ==
    [ a EXCEPT !.seller_gouged_pct_list =
                   ReadPctLists(@, a.seller_gouged_count, Len(a.seller_gouged_count)) ]

\* Part 4 and 5 of generate_summary: the summary that is written by a
\* process of hash seed `seed`
Summary(a, d, seed) ==
    [ written |-> TRUE,
      total_products |-> Len(d),
      total_categories |-> Cardinality({d[i].category : i \in 1..Len(d)}),
      total_skus |-> a.total_skus,
      products_per_category |-> a.products_per_category,
      skus_per_category |-> a.skus_per_category,
      marketplace_skus_per_category |-> a.marketplace_skus_per_category,
      total_unique_sellers |-> Cardinality(a.unique_sellers),
      unique_sellers |-> SortedSet(a.unique_sellers, seed),
      unique_sellers_excluding_amazon_and_kind |->
          SortedSet(a.unique_sellers_excl_main, seed),
      total_unique_sellers_excluding_amazon_and_kind |->
          Cardinality(a.unique_sellers_excl_main),
      seller_sku_impact |-> SellerImpact(a),
      price_flag_summary |-> a.price_flag_counter,
      rating_tiers_summary |-> a.rating_tier_counter,
      top_gouged_skus |-> TopGouged(a),
      product_variant_summary |-> a.product_variant_summary,
      total_listings |-> a.total_listings,
      total_gouged_listings |-> a.total_gouged_listings,
      fair_price_listings |-> a.fair_price_count,
      avg_overprice_pct |-> DMean(a.all_pct_deltas),
      avg_overprice_abs |-> DMean(a.all_abs_deltas),
      max_overprice_pct |-> DMax(a.all_pct_deltas),
      gouging_rate |-> RateOf(a.total_gouged_listings, a.total_listings),
      sku_gouged_map |-> SortedGougedMap(a.sku_gouged_map, seed),
      skus_impacted |-> SkusImpacted(a),
      skus_impact_rate |-> RateOf(SkusImpacted(a), a.total_skus),
      category_gouging_summary |-> CategorySummary(a),
      seller_gouging_summary |-> SellerSummary(a),
      prop_bad_sellers |-> PropBadSellers(d),
      marketplace_health_score |->
          HealthScore(RateOf(a.total_gouged_listings, a.total_listings),
                      DMean(a.all_pct_deltas), PropBadSellers(d)) ]

\* the encodings the standard output may have
Encodings == {"utf-8", "ascii"}

\* line 462: print() of a text with U+2714 raises UnicodeEncodeError on a
\* standard output whose encoding has no such character
PrintRaises(encoding) == encoding # "utf-8"

\* the states of the input file
Sources == {"ok", "missing", "invalid"}

NoFirst == [pc |-> "none", data |-> <<>>, out |-> NoOut, hashseed |-> 0]

Init ==
    /\ stdout \in Encodings
    /\ hashseed \in HashSeeds
    /\ source \in Sources
    /\ data \in (IF source = "ok" THEN Snapshots ELSE {<<>>})
    /\ pc = "load"
    /\ fi = 1
    /\ vi = 1
    /\ oi = 1
    /\ cur = NoContext
    /\ acc = EmptyAcc
    /\ last = NoFold
    /\ out = NoOut
    /\ call = NoCall
    /\ run = 1
    /\ first = NoFirst
    /\ ui = NoPage

\* a missing or corrupt input file read as an empty snapshot
LoadSourceOrEmpty(src, content) ==
    IF src = "ok" THEN [ok |-> TRUE, data |-> content]
    ELSE [ok |-> TRUE, data |-> <<>>]

\* lines 133-134: open() raises when the file is missing and json.load
\* when it holds no valid JSON
LoadSource(src, content) ==
    IF src = "ok" THEN [ok |-> TRUE, data |-> content]
    ELSE [ok |-> FALSE, data |-> <<>>]

\* lines 139-170: every accumulator is a local, made anew by each call
FreshAccumulators(a) == EmptyAcc

\* the step of generate_summary that loaded r
Loaded(r) ==
    /\ pc' = IF r.ok THEN "family" ELSE "raised"
    /\ data' = r.data
    /\ acc' = FreshAccumulators(acc)
    /\ fi' = 1
    /\ vi' = 1
    /\ oi' = 1
    /\ cur' = NoContext
    /\ last' = NoFold
    /\ UNCHANGED <<out, call, source, run, first, ui, stdout, hashseed>>

\* lines 131-170: a call of generate_summary reads the input file
Load ==
    /\ pc = "load"
    /\ Loaded(LoadSource(source, data))

\* `for item in data`: the next family (lines 173-196)
ScanFamily ==
    /\ pc = "family"
    /\ fi <= Len(data)
    /\ acc' = CountFamily(acc, data[fi], hashseed)
    /\ vi' = 1
    /\ pc' = "variant"
    /\ last' = NoFold
    /\ UNCHANGED <<data, fi, oi, cur, out, call, source, run, first, ui, stdout, hashseed>>

\* `if not asin: continue` (lines 199-201)
SkipVariant ==
    /\ pc = "variant"
    /\ vi <= Len(data[fi].variants)
    /\ data[fi].variants[vi].asin = ""
    /\ vi' = vi + 1
    /\ last' = NoFold
    /\ UNCHANGED <<data, pc, fi, oi, cur, acc, out, call, source, run, first, ui, stdout, hashseed>>

\* `for v in variants`: the next variant with an asin (lines 198-216)
ScanVariant ==
    /\ pc = "variant"
    /\ vi <= Len(data[fi].variants)
    /\ data[fi].variants[vi].asin # ""
    /\ cur' = VariantContext(data[fi], data[fi].variants[vi])
    /\ acc' = CountMarketplaceSku(acc, data[fi], data[fi].variants[vi].asin)
    /\ oi' = 1
    /\ pc' = "offer"
    /\ last' = NoFold
    /\ UNCHANGED <<data, fi, vi, out, call, source, run, first, ui, stdout, hashseed>>

\* the loop over the variants of a family ends
EndFamily ==
    /\ pc = "variant"
    /\ vi > Len(data[fi].variants)
    /\ fi' = fi + 1
    /\ pc' = "family"
    /\ last' = NoFold
    /\ UNCHANGED <<data, vi, oi, cur, acc, out, call, source, run, first, ui, stdout, hashseed>>

\* the step of the loop over the offers whose body gave r
FoldResult(r) ==
    /\ acc' = r.acc
    /\ last' = [ outcome |-> r.outcome, s |-> cur.offers[oi],
                 loc |-> r.loc, before |-> acc ]
    /\ pc' = IF r.outcome = "raised" THEN "raised" ELSE "offer"
    /\ oi' = oi + 1
    /\ UNCHANGED <<data, fi, vi, cur, out, call, source, run, first, ui, stdout, hashseed>>

\* `for s in (main_s + sellers)`: one offer (lines 219-325)
FoldOffer ==
    /\ pc = "offer"
    /\ oi <= Len(cur.offers)
    /\ FoldResult(ProcessOffer(acc, cur, cur.offers[oi]))

\* the loop over the offers of a variant ends
EndVariant ==
    /\ pc = "offer"
    /\ oi > Len(cur.offers)
    /\ vi' = vi + 1
    /\ pc' = "variant"
    /\ last' = NoFold
    /\ UNCHANGED <<data, fi, oi, cur, acc, out, call, source, run, first, ui, stdout, hashseed>>

\* the main loop ends: the summary is built and written (lines 328-460),
\* then three lines are printed (lines 462-464)
Finish ==
    /\ pc = "family"
    /\ fi > Len(data)
    /\ out' = Summary(acc, data, hashseed)
    /\ acc' = AfterSummary(acc)
    /\ pc' = IF PrintRaises(stdout) THEN "raised" ELSE "done"
    /\ last' = NoFold
    /\ UNCHANGED <<data, fi, vi, oi, cur, call, source, run, first, ui, stdout, hashseed>>

\* the orders in which the families of snapshot d may be listed
Reorderings(d) ==
    { [i \in 1..Len(d) |-> d[p[i]]] :
        p \in { q \in [1..Len(d) -> 1..Len(d)] :
                  \A i, j \in 1..Len(d) : q[i] = q[j] => i = j } }

\* generate_summary runs once more, in this process or in a new one, on the
\* same families in some order
Restart ==
    /\ pc \in {"done", "raised"}
    /\ run = 1
    /\ run' = 2
    /\ first' = [pc |-> pc, data |-> data, out |-> out, hashseed |-> hashseed]
    /\ data' \in Reorderings(data)
    /\ hashseed' \in HashSeeds
    /\ pc' = "load"
    /\ last' = NoFold
    /\ UNCHANGED <<fi, vi, oi, cur, acc, out, call, source, ui, stdout>>

Next ==
    \/ Load
    \/ Restart
    \/ ScanFamily
    \/ SkipVariant
    \/ ScanVariant
    \/ EndFamily
    \/ FoldOffer
    \/ EndVariant
    \/ Finish

Spec == Init /\ [][Next]_vars

(***************************************************************************)
(* Runs that call one helper function on inputs of its own                 *)
(***************************************************************************)
InitCall ==
    /\ call \in UnitPriceCalls \cup PackCalls \cup LongDigitCalls
    /\ data = <<>>
    /\ pc = "call"
    /\ fi = 1
    /\ vi = 1
    /\ oi = 1
    /\ cur = NoContext
    /\ acc = EmptyAcc
    /\ last = NoFold
    /\ out = NoOut
    /\ source = "ok"
    /\ run = 1
    /\ first = NoFirst
    /\ ui = NoPage
    /\ stdout = "utf-8"
    /\ hashseed = 0

CallUnitPrice ==
    /\ pc = "call"
    /\ call.fn = "compute_unit_price_from_price"
    /\ call.result = <<>>
    /\ call' = [call EXCEPT
                  !.result = <<compute_unit_price_from_price(call.arg[1], call.arg[2])>>]
    /\ UNCHANGED <<data, pc, fi, vi, oi, cur, acc, last, out, source, run, first, ui, stdout, hashseed>>

CallPackCount ==
    /\ pc = "call"
    /\ call.fn = "parse_pack_count"
    /\ call.result = <<>>
    /\ call' = [call EXCEPT !.result = <<parse_pack_count(call.arg)>>]
    /\ UNCHANGED <<data, pc, fi, vi, oi, cur, acc, last, out, source, run, first, ui, stdout, hashseed>>

NextCall ==
    \/ CallUnitPrice
    \/ CallPackCount

SpecCall == InitCall /\ [][NextCall]_vars

(***************************************************************************)
(* Runs of the product explorer                                            *)
(***************************************************************************)
InitPage ==
    /\ ui = NoPage
    /\ call = NoCall
    /\ data = <<>>
    /\ pc = "page"
    /\ fi = 1
    /\ vi = 1
    /\ oi = 1
    /\ cur = NoContext
    /\ acc = EmptyAcc
    /\ last = NoFold
    /\ out = NoOut
    /\ source = "ok"
    /\ run = 1
    /\ first = NoFirst
    /\ stdout = "utf-8"
    /\ hashseed = 0

\* the page is opened: the script runs for the first time
OpenPage ==
    /\ pc = "page"
    /\ ~ui.rendered
    /\ \E groups \in 0..MaxGroups :
         ui' = RunScript(ui.page, DefaultPageSize, groups, "none")
    /\ UNCHANGED <<data, pc, fi, vi, oi, cur, acc, last, out, call, source, run, first, stdout, hashseed>>

\* a click on "Previous" (lines 1150-1152)
ClickPrevious ==
    /\ pc = "page"
    /\ ui.rendered
    /\ ui' = RunScript(ui.page, ui.page_size, ui.groups, "Previous")
    /\ UNCHANGED <<data, pc, fi, vi, oi, cur, acc, last, out, call, source, run, first, stdout, hashseed>>

\* a click on "Next" (lines 1154-1156)
ClickNext ==
    /\ pc = "page"
    /\ ui.rendered
    /\ ui' = RunScript(ui.page, ui.page_size, ui.groups, "Next")
    /\ UNCHANGED <<data, pc, fi, vi, oi, cur, acc, last, out, call, source, run, first, stdout, hashseed>>

\* another option of "Items per page" is selected (line 966)
SelectPageSize ==
    /\ pc = "page"
    /\ ui.rendered
    /\ \E page_size \in PageSizes \ {ui.page_size} :
         ui' = RunScript(ui.page, page_size, ui.groups, "none")
    /\ UNCHANGED <<data, pc, fi, vi, oi, cur, acc, last, out, call, source, run, first, stdout, hashseed>>

\* a filter, the search or the sort order is changed: the script runs with
\* another list of groups
ChangeFilters ==
    /\ pc = "page"
    /\ ui.rendered
    /\ \E groups \in 0..MaxGroups :
         ui' = RunScript(ui.page, ui.page_size, groups, "none")
    /\ UNCHANGED <<data, pc, fi, vi, oi, cur, acc, last, out, call, source, run, first, stdout, hashseed>>

NextPage ==
    \/ OpenPage
    \/ ClickPrevious
    \/ ClickNext
    \/ SelectPageSize
    \/ ChangeFilters

SpecPage == InitPage /\ [][NextPage]_vars

(***************************************************************************)
(* Properties of the fold of one offer.  After FoldOffer, `last` holds the *)
(* offer, its locals and the accumulators before it; `cur` is the variant  *)
(* context it was folded in.                                               *)
(***************************************************************************)
\* a named offer was folded by the latest step
Folded == last.outcome \in {"unclassified", "classified", "raised"}

\* the upstream flag of the latest offer, trimmed and lower-cased
LastFlag == safe_lower(last.s.price_flag)

\* both unit prices of the latest offer are defined
LastPriced ==
    /\ last.outcome \in {"classified", "raised"}
    /\ ~IsNone(last.loc.seller_unit_price)
    /\ ~IsNone(last.loc.amazon_unit_price)

\* d is a Decimal equal to 0
IsZero(d) == IsNumber(d) /\ Val(d) = 0

\* both unit prices of the latest offer are numbers
LastNumbers ==
    IsNumber(last.loc.seller_unit_price) /\ IsNumber(last.loc.amazon_unit_price)

\* the latest offer's unit price less the baseline, in 1e-5 units
LastDelta == Val(last.loc.seller_unit_price) - Val(last.loc.amazon_unit_price)

\* delta_pct >= PCT_THRESHOLD and delta_abs >= ABS_THRESHOLD for the latest
\* offer, stated on the two unit prices themselves (baseline b # 0); when
\* one of them is no number both hold only for an infinite unit price
\* against a positive baseline
LastMeetsBoth ==
    IF LastNumbers
    THEN LET b == Val(last.loc.amazon_unit_price)
         IN  /\ IF b > 0 THEN 100 * LastDelta >= PCT_THRESHOLD * b
                         ELSE 100 * LastDelta <= PCT_THRESHOLD * b
             /\ LastDelta >= ABS_THRESHOLD * DecimalOne
    ELSE /\ last.loc.seller_unit_price = DecInf(1)
         /\ IsNumber(last.loc.amazon_unit_price)
         /\ Val(last.loc.amazon_unit_price) > 0

\* the entry of category c in the per-category statistics a
StatsOf(a, c) == Get(a.category_gouge_stats, c, EmptyStats)

\* C1: an offer with both unit prices defined, a non-zero baseline and an
\* upstream flag that is neither "price gouging" nor "fair price" is gouging
\* if and only if delta_pct >= 20 and delta_abs >= 2, both inclusive, and it
\* is tallied as gouged exactly then; a baseline of 5.00 with a unit price of
\* 6.50 is not gouging, with 7.50 it is.
C1_DualThreshold ==
    (LastPriced /\ ~IsZero(last.loc.amazon_unit_price)
        /\ LastFlag \notin {PriceGougingFlag, FairPriceFlag})
    => /\ last.loc.is_gouging <=> LastMeetsBoth
       /\ last.outcome = "classified" =>
            acc.total_gouged_listings =
                last.before.total_gouged_listings
                    + (IF LastMeetsBoth THEN 1 ELSE 0)
       /\ (last.loc.amazon_unit_price = Some(Cents(500))
             /\ last.loc.seller_unit_price = Some(Cents(650)))
            => ~last.loc.is_gouging
       /\ (last.loc.amazon_unit_price = Some(Cents(500))
             /\ last.loc.seller_unit_price = Some(Cents(750)))
            => last.loc.is_gouging

\* an unflagged offer at 7.50 against a baseline of 5.00 was counted as gouged
C1_Witness ==
    /\ last.outcome = "classified"
    /\ LastFlag = <<>>
    /\ last.loc.amazon_unit_price = Some(Cents(500))
    /\ last.loc.seller_unit_price = Some(Cents(750))
    /\ last.loc.is_gouging
    /\ acc.total_gouged_listings = last.before.total_gouged_listings + 1

\* the gouged tallies and the candidate list are as before the latest offer
GougedTalliesUnchanged ==
    /\ acc.total_gouged_listings = last.before.total_gouged_listings
    /\ StatsOf(acc, cur.category).gouged = StatsOf(last.before, cur.category).gouged
    /\ acc.seller_gouged_count = last.before.seller_gouged_count
    /\ acc.sku_gouged_map = last.before.sku_gouged_map
    /\ acc.top_gouged_candidates = last.before.top_gouged_candidates

\* the delta lists (global, per category, per seller) are as before the
\* latest offer
DeltaListsUnchanged ==
    /\ acc.all_pct_deltas = last.before.all_pct_deltas
    /\ acc.all_abs_deltas = last.before.all_abs_deltas
    /\ StatsOf(acc, cur.category).pct_list = StatsOf(last.before, cur.category).pct_list
    /\ StatsOf(acc, cur.category).abs_list = StatsOf(last.before, cur.category).abs_list
    /\ acc.seller_gouged_pct_list = last.before.seller_gouged_pct_list

\* C2: an offer whose upstream flag is "fair price" is never counted as
\* gouged, whatever its deltas: the gouged tallies, sku_gouged_map and the
\* candidate list stay as they were and fair_price_listings grows by one.
C2_FairPriceNeverGouged ==
    (last.outcome \in {"unclassified", "classified"} /\ LastFlag = FairPriceFlag)
    => /\ GougedTalliesUnchanged
       /\ acc.fair_price_count = last.before.fair_price_count + 1

\* C3: an offer with both unit prices defined whose upstream flag, trimmed
\* and lower-cased, is "price gouging" is always counted as gouged, whatever
\* its delta: total_gouged_listings grows by one and the offer is appended
\* to the candidate list.
C3_FlaggedAlwaysGouged ==
    (LastPriced /\ LastFlag = PriceGougingFlag)
    => /\ acc.total_gouged_listings = last.before.total_gouged_listings + 1
       /\ Len(acc.top_gouged_candidates) = Len(last.before.top_gouged_candidates) + 1
       /\ acc.top_gouged_candidates[Len(acc.top_gouged_candidates)].seller_name
            = Strip(last.s.seller_name)

\* the identity of an offer: seller name lower-cased, seller id or ""
Identity(s) == <<Lower(s.seller_name), s.seller_id>>

\* the latest offer has the identity of an earlier offer of the same variant
\* in the combined list (primary offers first)
LastIsDuplicate ==
    /\ Folded
    /\ \E j \in 1..(oi - 2) :
         /\ Strip(cur.offers[j].seller_name) # <<>>
         /\ Identity(cur.offers[j]) = Identity(last.s)

\* C4: the primary and the marketplace offers of a SKU are merged and
\* deduplicated by identity: an offer with the identity of an earlier one of
\* the same asin is not folded again (total_listings does not grow).
C4_DuplicateFoldedOnce ==
    LastIsDuplicate
    => /\ acc.total_listings = last.before.total_listings
       /\ StatsOf(acc, cur.category).total = StatsOf(last.before, cur.category).total

\* the latest offer is named and its seller unit price or the baseline unit
\* price is undefined
LastUndefinedPrice ==
    /\ Folded
    /\ IsNone(SellerUnitPrice(last.s)) \/ IsNone(cur.amazon_unit_price)

\* C5: an offer whose seller unit price or baseline unit price is undefined
\* is counted once in total_listings and in its category's total, and in
\* fair_price_listings when its flag is "fair price"; it adds nothing to the
\* delta lists, is not counted as gouged and is not added to the candidate
\* list, even if its upstream flag is "price gouging".
C5_UndefinedPriceCountedOnly ==
    LastUndefinedPrice
    => /\ last.outcome = "unclassified"
       /\ acc.total_listings = last.before.total_listings + 1
       /\ StatsOf(acc, cur.category).total = StatsOf(last.before, cur.category).total + 1
       /\ acc.fair_price_count =
            last.before.fair_price_count + (IF LastFlag = FairPriceFlag THEN 1 ELSE 0)
       /\ DeltaListsUnchanged
       /\ GougedTalliesUnchanged

\* the latest offer is named and its listed price parses to a number
LastListedPriceParses == Folded /\ IsNumber(to_decimal(last.s.price))

\* d is a Decimal greater than 0
IsPositive(d) == IF IsNumber(d) THEN Val(d) > 0 ELSE d = DecInf(1)

\* C6: for every offer whose listed price parses, the seller unit price
\* used for the deltas and the classification is the listed price divided
\* by the inferred pack count, quantized to 4 fractional digits, whatever
\* the declared unit_price is.
C6_UnitPriceFromListedPrice ==
    LastListedPriceParses
    => last.loc.seller_unit_price =
         Some(Quantize(Val(to_decimal(last.s.price)), parse_pack_count(last.s)))

\* C7: compute_unit_price_from_price(price, pack_count) is price / pack_count
\* quantized to 4 fractional digits with ties rounded away from zero
\* (0.00005 gives 0.0001 and 0.00025 gives 0.0003), and is absent when the
\* price does not parse or pack_count is 0.
C7_QuantizedHalfUp ==
    (call.fn = "compute_unit_price_from_price" /\ call.result # <<>>)
    => LET p == to_decimal(call.arg[1])
           k == call.arg[2]
           r == call.result[1]
       IN  IF ~IsNumber(p) \/ k = 0 THEN IsNone(r)
           ELSE /\ IsNumber(r)
                /\ Val(r) % Quantum = 0
                /\ 2 * Abs(Val(r) * k - Val(p)) <= Quantum * k
                /\ 2 * Abs(Val(r) * k - Val(p)) = Quantum * k
                     => Abs(Val(r)) * k > Abs(Val(p))
                /\ call.arg = <<JNum(5), 1>> => r = Some(10)
                /\ call.arg = <<JNum(25), 1>> => r = Some(30)

\* C8: parse_pack_count returns an integer >= 1 for every listing-like
\* record, 1 when no field resolves, and 12 for the title
\* "Snack Bars Pack of 12, 1.4oz" with no structured fields.
C8_PackCountAtLeastOne ==
    (call.fn = "parse_pack_count" /\ call.result # <<>>)
    => LET v == call.arg
           n == call.result[1]
       IN  /\ n \in Nat
           /\ n >= 1
           /\ (v.variant_dimensions = NoDims
                 /\ {v.size, v.title, v.variant_name} \subseteq {<<>>, TextPackOf})
                => n = 1
           /\ (v.variant_dimensions = NoDims /\ v.size = <<>>
                 /\ v.title = TitleSnackBars /\ v.variant_name = <<>>)
                => n = 12

\* the title "Snack Bars Pack of 12, 1.4oz" alone gave 12
C8_Witness ==
    /\ call.fn = "parse_pack_count"
    /\ call.arg.variant_dimensions = NoDims
    /\ call.arg.size = <<>>
    /\ call.arg.title = TitleSnackBars
    /\ call.arg.variant_name = <<>>
    /\ call.result = <<12>>

(***************************************************************************)
(* Properties of the baseline of a variant.  While pc = "offer", `cur` is  *)
(* the context of variant vi of family fi.                                 *)
(***************************************************************************)
\* the seller names of the snapshots that contain "amazon" in any case
AmazonNames == {NameAmazon, NameWarehouse}

\* the primary offers of the asin of the current variant, in list order
CurMain == SelectSeq(data[fi].main_seller, LAMBDA m : m.asin = cur.asin)

\* the positions in CurMain of the offers named like Amazon whose price parses
CurAmazonPriced ==
    { k \in 1..Len(CurMain) :
        CurMain[k].seller_name \in AmazonNames /\ ~IsNone(to_decimal(CurMain[k].price)) }

\* the unit price computed for a record: listed price / inferred pack count
ComputedUnitPrice(m) == compute_unit_price_from_price(m.price, parse_pack_count(m))

\* the value a primary offer gives: its computed unit price or, without
\* one, its listed price
PriceOfPrimary(m) ==
    IF ~IsNone(ComputedUnitPrice(m)) THEN ComputedUnitPrice(m) ELSE to_decimal(m.price)

\* C9: the baseline of a SKU is the unit price of the first primary offer of
\* its asin named like Amazon that gives one, wherever it is in the list;
\* otherwise that of the first primary offer of the asin; otherwise the
\* variant's own computed unit price, tagged "variant_unit_price" (4.00 for
\* a variant priced 4.00 per unit without primary offers); otherwise it is
\* undefined and tagged "none".  It is undefined exactly when the tag is
\* "none".
C9_BaselineCascade ==
    pc = "offer"
    => LET v == data[fi].variants[vi]
       IN  /\ IF CurAmazonPriced # {}
              THEN /\ cur.amazon_unit_price =
                        PriceOfPrimary(
                            CurMain[CHOOSE k \in CurAmazonPriced :
                                      \A j \in CurAmazonPriced : k <= j])
                   /\ cur.amazon_price_source \in
                        {"main_seller_amazon", "main_seller_amazon_raw"}
              ELSE IF CurMain # <<>> /\ ~IsNone(to_decimal(CurMain[1].price))
              THEN /\ cur.amazon_unit_price = PriceOfPrimary(CurMain[1])
                   /\ cur.amazon_price_source \in
                        {"main_seller_first", "main_seller_first_raw"}
              ELSE IF ~IsNone(ComputedUnitPrice(v))
              THEN /\ cur.amazon_unit_price = ComputedUnitPrice(v)
                   /\ cur.amazon_price_source = "variant_unit_price"
              ELSE /\ IsNone(cur.amazon_unit_price)
                   /\ cur.amazon_price_source = "none"
           /\ IsNone(cur.amazon_unit_price) <=> cur.amazon_price_source = "none"
           /\ (CurMain = <<>> /\ v.price = JNum(Cents(400)) /\ v.title = <<>>)
                => /\ cur.amazon_unit_price = Some(Cents(400))
                   /\ cur.amazon_price_source = "variant_unit_price"

\* the baseline was taken from an offer named like Amazon that is second in
\* the primary list, behind a priced offer of another seller
C9_Witness ==
    /\ pc = "offer"
    /\ Len(CurMain) = 2
    /\ CurMain[1].seller_name = NameShop
    /\ CurMain[1].price = JNum(Cents(600))
    /\ CurMain[2].seller_name = NameWarehouse
    /\ cur.amazon_unit_price = Some(Cents(2000))
    /\ cur.amazon_price_source = "main_seller_amazon"

\* C10: delta_pct of an offer is defined if and only if both unit prices are
\* defined and the baseline is not zero; against a zero baseline the division
\* does not end the run, the offer is not gouging by the computed thresholds
\* and no delta_pct list grows.
C10_DeltaPctDefined ==
    Folded
    => /\ ~IsNone(last.loc.price_delta_pct)
            <=> /\ ~IsNone(SellerUnitPrice(last.s))
                /\ ~IsNone(cur.amazon_unit_price)
                /\ ~IsZero(cur.amazon_unit_price)
       /\ (LastPriced /\ IsZero(cur.amazon_unit_price))
            => /\ last.loc.is_gouging <=> LastFlag = PriceGougingFlag
               /\ last.outcome = "raised" => CandidateRaises(cur, last.s)
               /\ last.outcome = "classified" =>
                    /\ acc.all_pct_deltas = last.before.all_pct_deltas
                    /\ StatsOf(acc, cur.category).pct_list
                         = StatsOf(last.before, cur.category).pct_list
                    /\ acc.seller_gouged_pct_list = last.before.seller_gouged_pct_list
                    /\ acc.total_listings = last.before.total_listings + 1

(***************************************************************************)
(* Claims about the written summary.  `out` is the summary of the current  *)
(* run once it is written; `first` keeps the outcome of the first run.     *)
(***************************************************************************)
\* the summary of the current run is written: the run ended, at the end of
\* the main loop or at the print() that follows the write
Written == pc = "done" \/ (pc = "raised" /\ source = "ok" /\ last.outcome = "none")

\* 0 <= x <= 100 for a float x
IsPercentage(x) == DGe(x, DZero) /\ DGe(DOfInt(100), x)

\* the health score of the written summary before rounding and clamping
OutRawHealth ==
    RawHealth(out.gouging_rate, out.avg_overprice_pct, out.prop_bad_sellers)

\* C11: the written summary has 0 <= gouging_rate <= 100 and
\* 0 <= marketplace_health_score <= 100, the gouged listings never outnumber
\* the listings after any sequence of folded offers, and the summary of an
\* empty snapshot has gouging_rate = 0 and marketplace_health_score = 100.
C11_RatesWithinBounds ==
    /\ acc.total_gouged_listings <= acc.total_listings
    /\ Written =>
         /\ out.written
         /\ IsPercentage(out.gouging_rate)
         /\ out.marketplace_health_score \in 0..(100 * 100)
         /\ data = <<>> =>
              /\ out.gouging_rate = DZero
              /\ out.marketplace_health_score = 100 * 100

\* a summary whose weighted penalties exceed 100: the score is clamped to 0
C11_Witness ==
    /\ Written
    /\ out.total_gouged_listings > 0
    /\ DLt(OutRawHealth, DZero)
    /\ out.marketplace_health_score = 0

\* the sum of the field total of the first n entries of the statistics st
RECURSIVE SumOfTotals(_, _)
SumOfTotals(st, n) == IF n = 0 THEN 0 ELSE SumOfTotals(st, n - 1) + st[n].v.total

\* the sum of total_listings over the first n rows of a category summary
RECURSIVE SumOfRows(_, _)
SumOfRows(rows, n) ==
    IF n = 0 THEN 0 ELSE SumOfRows(rows, n - 1) + rows[n].total_listings

\* C12: after every folded offer, and in the written summary, the
\* per-category total_listings add up to the global total_listings, for
\* classifiable and unclassifiable offers alike.
C12_CategoryTotalsAddUp ==
    /\ SumOfTotals(acc.category_gouge_stats, Len(acc.category_gouge_stats))
         = acc.total_listings
    /\ Written =>
         SumOfRows(out.category_gouging_summary, Len(out.category_gouging_summary))
           = out.total_listings

\* a summary with listings in two categories, some of them unclassifiable
C12_Witness ==
    /\ pc = "done"
    /\ Len(out.category_gouging_summary) = 2
    /\ \A i \in 1..2 : out.category_gouging_summary[i].total_listings > 0
    /\ out.total_listings > Len(acc.all_abs_deltas)
    /\ Len(acc.all_abs_deltas) > 0

\* the asins of the variants of family f of the snapshot
AsinsOf(f) == { data[f].variants[v].asin : v \in 1..Len(data[f].variants) }

\* C13: the written summary has skus_impacted <= total_skus, hence a
\* skus_impact_rate within [0, 100], also when an asin is carried by several
\* variants or families and when some variants carry no asin.
C13_ImpactedWithinSkus ==
    Written =>
        /\ out.skus_impacted <= out.total_skus
        /\ IsPercentage(out.skus_impact_rate)

\* two families share a gouged asin, one of them lists it on two variants
\* besides a second gouged asin, the other has a variant without an asin
C13_Witness ==
    /\ pc = "done"
    /\ Len(data) = 2
    /\ "A1" \in AsinsOf(1) \cap AsinsOf(2)
    /\ "" \in AsinsOf(1) \cup AsinsOf(2)
    /\ \E f \in 1..2 : Len(data[f].variants) > Cardinality(AsinsOf(f))
    /\ out.skus_impacted = 2
    /\ out.total_skus = 5

\* C14: a price that cannot be interpreted (a text that is no number, null)
\* on a variant or an offer is absorbed: the value is absent, never zero, and
\* the run of a readable snapshot goes on to completion and writes the
\* summary, whatever the other prices, declared unit prices and gouging
\* outcomes are.
C14_UnparseablePriceNonFatal ==
    source = "ok" =>
        /\ pc = "raised" => Written
        /\ (Folded /\ ~IsNumber(to_decimal(last.s.price))
                /\ ~IsNumber(to_decimal(last.s.unit_price)))
           => /\ last.outcome # "raised"
              /\ IsNone(last.loc.seller_unit_price)

\* the number of variants of the first n families of snapshot d, in category
\* c, that carry an asin
RECURSIVE VariantsWithAsin(_, _, _)
VariantsWithAsin(d, n, c) ==
    IF n = 0 THEN 0
    ELSE VariantsWithAsin(d, n - 1, c)
         + (IF CategoryOf(d[n]) = c
            THEN Len(SelectSeq(d[n].variants, LAMBDA v : v.asin # ""))
            ELSE 0)

\* the categories of snapshot d
CategoriesOf(d) == {CategoryOf(d[i]) : i \in 1..Len(d)}

\* the sum of the values of the first n entries of mapping m
RECURSIVE SumOfValues(_, _)
SumOfValues(m, n) == IF n = 0 THEN 0 ELSE SumOfValues(m, n - 1) + m[n].v

\* C15: a variant without an asin is dropped entirely: the written summary
\* counts it neither in total_skus nor in skus_per_category, as if it were
\* not in the snapshot, and the other variants of its family are processed.
C15_NoAsinVariantDropped ==
    Written =>
        /\ \A c \in CategoriesOf(data) :
             Get(out.skus_per_category, c, 0) = VariantsWithAsin(data, Len(data), c)
        /\ out.total_skus
             = SumOfValues(out.skus_per_category, Len(out.skus_per_category))

\* C16: when the input snapshot cannot be read or is no valid structured
\* data, generate_summary aborts before anything is written: the run ends
\* without a summary, in particular without an empty or zero-product one.
C16_SourceFailureIsFatal ==
    source # "ok" =>
        /\ pc \in {"load", "raised"}
        /\ ~out.written
        /\ acc = EmptyAcc

\* a run on an input that is no valid structured data has ended
C16_Witness ==
    /\ source = "invalid"
    /\ pc = "raised"
    /\ ~out.written

\* the second run has ended
SecondRunEnded == run = 2 /\ pc \in {"done", "raised"}

\* C17: a second run on the identical snapshot ends as the first one did and
\* writes the identical summary, whatever the hash seeds of the two
\* processes: every scalar, mapping and ranked list, the order of entries
\* that tie on their sort key and the order of every list made of a set
\* included; nothing of the first run survives into the second.
C17_Idempotent ==
    (SecondRunEnded /\ data = first.data)
    => /\ pc = first.pc
       /\ out = first.out

\* two processes of different hash seeds wrote a summary of one snapshot
\* that lists two sellers, two gouging sellers of one SKU and two different
\* gouged offers that tie on the sort key
C17_Witness ==
    /\ SecondRunEnded
    /\ data = first.data
    /\ hashseed # first.hashseed
    /\ pc = "done"
    /\ first.pc = "done"
    /\ Len(out.unique_sellers) >= 2
    /\ IterOrder(acc.unique_sellers, hashseed)
         # IterOrder(acc.unique_sellers, first.hashseed)
    /\ \E k \in 1..Len(out.sku_gouged_map) : Len(out.sku_gouged_map[k].v) >= 2
    /\ \E i, j \in 1..Len(out.top_gouged_skus) :
         /\ i < j
         /\ out.top_gouged_skus[i] # out.top_gouged_skus[j]
         /\ GougedKey(out.top_gouged_skus[i]) = GougedKey(out.top_gouged_skus[j])

\* the entries of mapping m, without their order
EntriesOf(m) == { <<m[i].k, m[i].v>> : i \in 1..Len(m) }

\* the counts of summary o that the order of the families must not change
OrderFreeCounts(o) ==
    [ total_skus |-> o.total_skus,
      total_listings |-> o.total_listings,
      total_gouged_listings |-> o.total_gouged_listings,
      fair_price_listings |-> o.fair_price_listings,
      categories |->
          { <<o.category_gouging_summary[i].category,
              o.category_gouging_summary[i].total_listings,
              o.category_gouging_summary[i].gouged_listings>> :
              i \in 1..Len(o.category_gouging_summary) },
      marketplace_skus_per_category |-> EntriesOf(o.marketplace_skus_per_category),
      skus_impacted |-> o.skus_impacted ]

\* C18: the accumulated counts do not depend on the order in which the
\* families are folded: total_skus, total_listings, total_gouged_listings,
\* fair_price_listings, the per-category totals and gouged counts,
\* marketplace_skus_per_category and skus_impacted are the same for every
\* permutation of the families of a snapshot.
C18_CountsIgnoreFamilyOrder ==
    SecondRunEnded
    => /\ pc = first.pc
       /\ Written => OrderFreeCounts(out) = OrderFreeCounts(first.out)

\* two different families of one category, sharing an asin, were folded in
\* one order and then in the other
C18_Witness ==
    /\ SecondRunEnded
    /\ pc = "done"
    /\ Len(data) = 2
    /\ data[1] # data[2]
    /\ first.data = <<data[2], data[1]>>
    /\ CategoryOf(data[1]) = CategoryOf(data[2])
    /\ AsinsOf(1) \cap AsinsOf(2) # {}
    /\ out.skus_impacted = 2
    /\ out.total_gouged_listings > 0
    /\ \E e \in EntriesOf(out.marketplace_skus_per_category) : e[2] >= 2

\* the tags of a baseline taken from a primary offer
PrimaryTags ==
    { "main_seller_amazon", "main_seller_amazon_raw",
      "main_seller_first", "main_seller_first_raw" }

\* the primary offer the baseline of the current variant was taken from
ChosenPrimary ==
    IF cur.amazon_price_source \in {"main_seller_amazon", "main_seller_amazon_raw"}
    THEN CurMain[CHOOSE k \in CurAmazonPriced : \A j \in CurAmazonPriced : k <= j]
    ELSE CurMain[1]

\* C19: a baseline taken from a primary offer is that offer's declared unit
\* price if it is present and > 0; only otherwise its computed unit price
\* (listed price / inferred pack count); only otherwise its raw listed price.
C19_BaselinePrefersDeclared ==
    (pc = "offer" /\ cur.amazon_price_source \in PrimaryTags)
    => LET m == ChosenPrimary
           declared == to_decimal(m.unit_price)
       IN  IF IsPositive(declared)
           THEN cur.amazon_unit_price = declared
           ELSE IF ~IsNone(ComputedUnitPrice(m))
           THEN cur.amazon_unit_price = ComputedUnitPrice(m)
           ELSE cur.amazon_unit_price = to_decimal(m.price)

\* C20: when no structured dimension field resolves the pack count, the
\* pattern "pack [of] N" is tried on size, title and name, in that order,
\* before the pattern "N count|ct|pieces|pcs" is tried on any field: a
\* "pack of N" in a later field wins over an "N count" in an earlier one.
C20_PackOfBeforeCount ==
    (call.fn = "parse_pack_count" /\ call.result # <<>>
        /\ IsNone(PackFromDims(call.arg.variant_dimensions, 1)))
    => LET v == call.arg
           packs == Re1Search(v.size) \o Re1Search(v.title)
                        \o Re1Search(v.variant_name)
       IN  packs # <<>> => call.result[1] = Max(1, packs[1])

\* the integer a dimension value parses to after stripping its non-digit
\* characters, 0 when no digit is left or int() refuses the digits
StrippedValue(val) ==
    IF val[1] = "int" THEN Abs(val[2])
    ELSE IF val[1] = "str"
         THEN LET d == OnlyDigits(val[2])
              IN  Val(FirstOf(IntOfDigits(d, 1, Len(d) + 1) \o <<0>>))
         ELSE 0

\* the positions in DimKeys of the dimension fields that parse to an
\* integer >= 1
WellFormedDims(dims) ==
    { k \in 1..Len(DimKeys) : StrippedValue(dims[DimKeys[k]]) >= 1 }

\* C21: a structured dimension field determines the pack count only if,
\* stripped of its non-digit characters, it parses to an integer >= 1; a
\* present field without digits or parsing to 0 is passed over, for the next
\* structured field and then the free-text patterns, instead of giving 1.
C21_MalformedDimensionFallsThrough ==
    (call.fn = "parse_pack_count" /\ call.result # <<>>)
    => LET v == call.arg
           good == WellFormedDims(v.variant_dimensions)
       IN  IF good # {}
           THEN call.result[1] =
                  StrippedValue(v.variant_dimensions[
                      DimKeys[CHOOSE k \in good : \A j \in good : k <= j]])
           ELSE call.result[1] =
                  Val(FirstOf(PackFromTexts(<<v.size, v.title, v.variant_name>>, 1)
                              \o <<1>>))

\* the entries of list t, without their order
EntrySet(t) == { t[i] : i \in 1..Len(t) }

\* C22: top_gouged_skus holds at most TOP_N entries, the candidates of
\* largest delta_pct, ordered by delta_pct descending, also when candidates
\* admitted by the upstream flag have a delta_pct of zero or below.
C22_TopGougedByDeltaPct ==
    Written =>
        LET t == out.top_gouged_skus
        IN  /\ Len(t) = Min(TOP_N, Len(acc.top_gouged_candidates))
            /\ EntrySet(t) \subseteq EntrySet(acc.top_gouged_candidates)
            /\ \A i, j \in 1..Len(t) :
                 (i < j /\ ~IsNone(t[i].price_delta_percent)
                        /\ ~IsNone(t[j].price_delta_percent))
                 => ~DLt(Val(t[i].price_delta_percent),
                         Val(t[j].price_delta_percent))

\* the delta_pct of the gouged listings of seller name, in fold order
GougedDeltasOf(name) ==
    LET mine == SelectSeq(acc.top_gouged_candidates,
                          LAMBDA c : c.seller_name = name
                                     /\ ~IsNone(c.price_delta_percent))
    IN  [i \in 1..Len(mine) |-> Val(mine[i].price_delta_percent)]

\* C23: for every seller of seller_gouging_summary, avg_overprice_pct is the
\* mean of delta_pct over the gouged listings of that seller only: a listing
\* of the seller that is not gouged never changes it.
C23_SellerAverageOverGougedOnly ==
    Written =>
        \A i \in 1..Len(out.seller_gouging_summary) :
            out.seller_gouging_summary[i].avg_overprice_pct
              = DMean(GougedDeltasOf(out.seller_gouging_summary[i].seller_name))

\* the marketplace offers of the whole snapshot
AllMarketOffers == MarketOffersOf(data, Len(data))

\* the known ratings of the seller called name
RatingsOf(name) ==
    { AllMarketOffers[i].positive_rating_percent[2] :
        i \in { j \in 1..Len(AllMarketOffers) :
                  /\ AllMarketOffers[j].seller_name = name
                  /\ AllMarketOffers[j].positive_rating_percent[1] = "num" } }

\* the sellers that carry a known rating on some offer
RatedSellers ==
    { AllMarketOffers[i].seller_name : i \in 1..Len(AllMarketOffers) }
        \ ({<<>>} \cup { n \in { AllMarketOffers[i].seller_name :
                                   i \in 1..Len(AllMarketOffers) } :
                           RatingsOf(n) = {} })

\* every rating of the snapshot is absent or a number, and the known ratings
\* of a seller agree
RatingsUnambiguous ==
    /\ \A i \in 1..Len(AllMarketOffers) :
         AllMarketOffers[i].positive_rating_percent[1] \in {"null", "num"}
    /\ \A n \in RatedSellers : Cardinality(RatingsOf(n)) = 1

\* C24: prop_bad_sellers is 100 x the number of distinct sellers with a
\* known rating below 50 over the number of distinct sellers with a known
\* rating, 0 when no seller is rated; a seller that carries a known rating on
\* some offer counts once, whatever the number and order of its listings, and
\* the value lies within [0, 100].
C24_BadSellersOverRatedSellers ==
    (Written /\ RatingsUnambiguous)
    => /\ out.prop_bad_sellers
            = RateOf(Cardinality({ n \in RatedSellers :
                                     \E r \in RatingsOf(n) : r < 50 }),
                     Cardinality(RatedSellers))
       /\ IsPercentage(out.prop_bad_sellers)

\* 100 - 0.5 x gouging_rate - 0.4 x avg_overprice_pct - 0.1 x prop_bad_sellers
\* in floats, from the tallies of the fold: the gouged share of the listings
\* and the mean of every defined delta_pct
WeightedHealth ==
    LET gouging_rate ==
            IF acc.total_listings = 0 THEN DZero
            ELSE DMul(NearestQuotient(1, acc.total_gouged_listings, acc.total_listings),
                      DOfInt(100))
        avg_overprice_pct ==
            IF acc.all_pct_deltas = <<>> THEN DZero
            ELSE DDivInt(DSum(acc.all_pct_deltas, Len(acc.all_pct_deltas)),
                         Len(acc.all_pct_deltas))
    IN  DSub(DSub(DSub(DOfInt(100), DMul(gouging_rate, NearestQuotient(1, 1, 2))),
                  DMul(avg_overprice_pct, NearestQuotient(1, 2, 5))),
             DMul(out.prop_bad_sellers, NearestQuotient(1, 1, 10)))

\* |a - b| of two naturals
BigDistance(a, b) == IF BigCmp(a, b) >= 0 THEN BigSub(a, b) ELSE BigSub(b, a)

\* |200 * h - 2 * score| <= 1 for h = sign * m * 2^(-k), all multiplied by
\* 2^k
WithinHalfScaled(sign, m, k, score) ==
    IF sign > 0
    THEN BigCmp(BigDistance(BigMulAdd(m, 200, 0), BigShl(BigOf(2 * score), k)),
                BigShl(<<1>>, k)) <= 0
    ELSE BigCmp(BigAdd(BigMulAdd(m, 200, 0), BigShl(BigOf(2 * score), k)),
                BigShl(<<1>>, k)) <= 0

\* the finite float h, read exactly, is within half a hundredth of
\* score / 100
WithinHalfHundredth(h, score) ==
    IF h[4] >= 0
    THEN h[2] * BigToInt(BigShl(BigMulAdd(h[3], 100, 0), h[4])) = score
    ELSE WithinHalfScaled(h[2], h[3], 0 - h[4], score)

\* C25: marketplace_health_score is 100 - 0.5 x gouging_rate
\* - 0.4 x avg_overprice_pct - 0.1 x prop_bad_sellers clamped to [0, 100] and
\* rounded to 2 decimals, with gouging_rate the gouged share of the listings
\* x 100 and avg_overprice_pct the mean delta_pct of all listings with a
\* defined delta, gouged or not, negative ones included.
C25_HealthScoreFormula ==
    Written =>
        LET h == WeightedHealth
            score == out.marketplace_health_score
        IN  /\ ~IsNaN(h)
            /\ IF DGe(DZero, h) THEN score = 0
               ELSE IF DGe(h, DOfInt(100)) THEN score = 100 * 100
               ELSE WithinHalfHundredth(h, score)

\* the rows of a category summary are in descending order of gouging rate
CategoriesDescending(rows) ==
    \A i, j \in 1..Len(rows) :
        i < j => ~DLt(rows[i].gouging_rate, rows[j].gouging_rate)

\* the rows of a seller summary are in descending order of
\* (gouged_listings, avg_overprice_pct)
SellersDescending(rows) ==
    \A i, j \in 1..Len(rows) :
        i < j =>
            \/ rows[i].gouged_listings > rows[j].gouged_listings
            \/ /\ rows[i].gouged_listings = rows[j].gouged_listings
               /\ ~DLt(rows[i].avg_overprice_pct, rows[j].avg_overprice_pct)

\* C26: category_gouging_summary is sorted by gouging rate descending and
\* seller_gouging_summary by (gouged listings, avg_overprice_pct) descending,
\* and rows that tie are ordered by a tie-break that does not depend on the
\* order of the families: two runs over the same families in different
\* orders emit both lists in the same order.
C26_RankedListsIgnoreFamilyOrder ==
    Written =>
        /\ CategoriesDescending(out.category_gouging_summary)
        /\ SellersDescending(out.seller_gouging_summary)
        /\ run = 2 =>
             /\ out.category_gouging_summary = first.out.category_gouging_summary
             /\ out.seller_gouging_summary = first.out.seller_gouging_summary

\* the latest step folded, as a classified listing, the primary offer the
\* baseline of its variant was taken from
LastIsBaselineOffer ==
    /\ last.outcome = "classified"
    /\ pc = "offer"
    /\ cur.amazon_price_source \in PrimaryTags
    /\ last.s = ChosenPrimary

\* C27: when the baseline of a SKU is taken from a primary offer, that offer
\* itself, folded as a listing, has delta_abs = 0 against the baseline and is
\* never gouged by the computed thresholds, whatever its declared unit price.
C27_BaselineOfferHasNoDelta ==
    LastIsBaselineOffer
    => /\ IsZero(last.loc.price_delta_abs)
       /\ ~ComputedGouging(last.loc.pct_float, last.loc.abs_float)

\* the sum of the field gouged of the first n entries of the statistics st
RECURSIVE SumOfGouged(_, _)
SumOfGouged(st, n) == IF n = 0 THEN 0 ELSE SumOfGouged(st, n - 1) + st[n].v.gouged

\* C28: after every folded offer the gouged tallies agree:
\* total_gouged_listings is the sum of the per-category gouged counts, the
\* sum of the per-seller gouged counts and the length of the candidate list
\* before it is cut to TOP_N; every key of sku_gouged_map has a non-empty
\* seller set, so skus_impacted <= total_gouged_listings.
C28_GougedTalliesAgree ==
    /\ acc.total_gouged_listings
         = SumOfGouged(acc.category_gouge_stats, Len(acc.category_gouge_stats))
    /\ acc.total_gouged_listings
         = SumOfValues(acc.seller_gouged_count, Len(acc.seller_gouged_count))
    /\ acc.total_gouged_listings = Len(acc.top_gouged_candidates)
    /\ \A i \in 1..Len(acc.sku_gouged_map) : acc.sku_gouged_map[i].v # {}
    /\ SkusImpacted(acc) <= acc.total_gouged_listings
    /\ Written => out.skus_impacted <= out.total_gouged_listings

\* two sellers gouged, one SKU was gouged twice, next to a listing that is
\* not gouged
C28_Witness ==
    /\ Folded
    /\ Len(acc.seller_gouged_count) = 2
    /\ acc.total_gouged_listings > SkusImpacted(acc)
    /\ acc.total_listings > acc.total_gouged_listings
    /\ SkusImpacted(acc) >= 1

\* the latest step met an offer whose seller name is missing or blank
LastIsNameless == last.outcome # "none" /\ Strip(last.s.seller_name) = <<>>

\* the offer s has a seller name
IsNamed(s) == Strip(s.seller_name) # <<>>

\* snapshot d without the marketplace offers that have no seller name
NamedOnly(d) ==
    [ i \in 1..Len(d) |-> [ d[i] EXCEPT !.seller_market = SelectSeq(@, IsNamed) ] ]

\* the asins of category c that a family of snapshot d lists with a
\* marketplace offer
MarketAsins(d, c) ==
    UNION { { d[i].variants[j].asin :
                j \in { n \in 1..Len(d[i].variants) :
                          /\ d[i].variants[n].asin # ""
                          /\ MarketSellersOf(d[i], d[i].variants[n].asin) # <<>> } } :
            i \in { m \in 1..Len(d) : CategoryOf(d[m]) = c } }

\* the summary counts no marketplace offer without a seller name: not as a
\* marketplace SKU of its category, not as a seller of its product and not
\* as a rated seller
SummaryOfNamedOnly ==
    /\ \A k \in 1..Len(out.marketplace_skus_per_category) :
          out.marketplace_skus_per_category[k].v =
            Cardinality(MarketAsins(NamedOnly(data),
                                    out.marketplace_skus_per_category[k].k))
    /\ \A i \in 1..Len(out.product_variant_summary) :
          \A j \in 1..Len(out.product_variant_summary[i].unique_sellers_in_product) :
            out.product_variant_summary[i].unique_sellers_in_product[j] # <<>>
    /\ out.prop_bad_sellers = PropBadSellers(NamedOnly(data))

\* C29: an offer whose seller_name is missing or blank after trimming
\* changes no accumulator at all: the loop over the offers leaves every
\* accumulator as it was (total_listings and its category total, the
\* price-flag, rating-tier and fair-price counters, seller_sku_impact), the
\* offer is never gouged, whatever its upstream flag, and the summary that
\* is written counts it nowhere.
C29_NamelessOfferChangesNothing ==
    /\ LastIsNameless
       => /\ acc = last.before
          /\ pc # "raised"
          /\ ~last.loc.is_gouging
    /\ Written => SummaryOfNamedOnly

(***************************************************************************)
(* Properties of the product explorer.  `ui` holds the latest run of the   *)
(* script: the session page it entered with, the page it sliced with and   *)
(* the session page it left.                                               *)
(***************************************************************************)
\* C30: for any sequence of Previous and Next clicks, page-size changes and
\* filter changes, the page used to slice the grouped products lies within
\* 1..total_pages, with total_pages >= 1 even when no group matches:
\* Previous never goes below 1, Next never above total_pages, and a page
\* left above total_pages by a shrinking result is clamped before slicing.
C30_PageWithinRange ==
    ui.rendered
    => /\ ui.total_pages >= 1
       /\ ui.sliced \in 1..ui.total_pages
       /\ Val(ui.page) \in 1..ui.total_pages
       /\ ui.start \in 0..(total_groups(ui.groups) - 1)

\* the session was on a later page when a filter left no group: the script
\* sliced with page 1 of 1
C30_Witness ==
    /\ ui.rendered
    /\ ui.groups = 0
    /\ ~IsNone(ui.entered)
    /\ Val(ui.entered) > 1
    /\ ui.total_pages = 1
    /\ ui.sliced = 1

====
